---- MODULE Spec2Model ----
(***************************************************************************)
(* Model of the event bus of src/src/services/emailService.js:             *)
(* CircuitBreaker, DeadLetterQueue, EventStore, Saga and EventBus.         *)
(*                                                                         *)
(* One step of the model is one run-to-completion turn of the JavaScript   *)
(* event loop: from a call or the resumption of an await up to the next    *)
(* await.  Handlers, middlewares and saga steps are asynchronous callbacks *)
(* of the callers; their outcomes are chosen nondeterministically.         *)
(***************************************************************************)
EXTENDS Integers, Sequences, FiniteSets, TLC

(***************************************************************************)
(* Bounds of the model.                                                    *)
(***************************************************************************)
MaxThreshold == 2   \* failureThreshold and successThreshold range over 1..MaxThreshold
MaxCalls == 5       \* execute() calls made on the stand-alone breaker

MaxPub == 2         \* publish calls (events) of one run of the bus
MaxHandlers == 2    \* handler registrations of the bus
MaxRetries == 2     \* maxRetries of an event ranges over 1..MaxRetries
MaxSteps == 3       \* steps of the saga
MaxRuns == 2        \* calls of Saga.run on the one saga
DLQMaxSize == 2     \* maxSize of the DeadLetterQueue
MaxClock == 1       \* Date.now() and the random suffixes range over 0..MaxClock
MaxClears == 1      \* calls of EventBus.clear()
MaxPriority == 1    \* options.priority of subscribe ranges over 0..MaxPriority
MaxSubs == 3        \* calls of EventBus.subscribe made while the bus is in use
SagaTimeout == 2    \* options.timeout of the saga, in ticks of the clock

VARIABLES
  cbs,          \* breaker id -> CircuitBreaker object (fields of lines 335-342, its timers)
  execs,        \* stand-alone breaker: number of fn() invocations in flight
  nCalls,       \* stand-alone breaker: number of execute() calls made so far
  lastExec,     \* stand-alone breaker: what the latest execute() event was
  handlers,     \* EventBus.handlers: event type -> sequence of handlerConfig
  middlewares,  \* EventBus.middlewares: what each middleware returns
  dlqHandlers,  \* DeadLetterQueue.handlers: event type -> what the handler does
  subscribers,  \* EventStore.subscribers: event type -> what each callback does
  events,       \* the Event object of each publish call: status, attempts, maxRetries
  pub,          \* each publish call: where it is suspended, and its history
  store,        \* EventStore.events
  assigned,     \* history: the sequence numbers append has assigned, in order
  dlq,          \* DeadLetterQueue.queue
  metrics,      \* EventBus.metrics
  batch,        \* the events array of the publishBatch call, <<>> when none was made
  batchResults, \* what publishBatch returned, <<>> while it has not
  openInvoked,  \* history: a handler was invoked while its breaker was OPEN
  saga,         \* the Saga object: steps, compensations, currentStep, state, context
  runs,         \* each call of Saga.run: where it is suspended, and its history
  replay,       \* the call of EventBus.replay: its options, selection and progress
  roundTrip,    \* an Event, its toJSON() and the Event fromJSON made of it
  returned,     \* what the latest DeadLetterQueue.retry or remove call returned
  sagas,        \* EventBus.sagas: the names under which a saga is registered
  clears,       \* history: the number of EventBus.clear() calls made
  subs          \* history: the number of EventBus.subscribe calls made

cbVars == <<cbs, execs, nCalls, lastExec>>
busVars == <<handlers, middlewares, dlqHandlers, subscribers, subscribers, events, pub, store,
             assigned, dlq, metrics, batch, batchResults, openInvoked>>
sagaVars == <<saga, runs>>
restVars == <<replay, roundTrip, returned>>
registryVars == <<sagas, clears, subs>>
vars == <<cbs, execs, nCalls, lastExec, handlers, middlewares, dlqHandlers, subscribers, subscribers,
          events, pub, store, assigned, dlq, metrics, batch, batchResults, openInvoked,
          saga, runs, replay, roundTrip, returned, sagas, clears, subs>>

(***************************************************************************)
(* CircuitBreaker (lines 333-419).                                         *)
(*                                                                         *)
(* resetTimer is TRUE when the field holds a timer handle.  timerPending   *)
(* says whether the timer that handle names has not fired or been cleared; *)
(* staleTimers counts the older timers that open() started and whose       *)
(* handle was overwritten by a later open() before they fired.             *)
(* closedFails and halfOpenSuccs are history fields: the failed executions *)
(* completed with no success in between since the breaker was last CLOSED  *)
(* by close(), and the successful executions completed since the breaker   *)
(* last left another state for HALF_OPEN.                                  *)
(***************************************************************************)
NewBreaker(ft, st) ==
  [ state            |-> "closed",
    failureCount     |-> 0,
    successCount     |-> 0,
    failureThreshold |-> ft,
    successThreshold |-> st,
    resetTimer       |-> FALSE,
    lastFailure      |-> "null",
    timerPending     |-> FALSE,
    staleTimers      |-> 0,
    closedFails      |-> 0,
    halfOpenSuccs    |-> 0 ]

\* open(): lines 385-392.  The previous timer is not cleared.
CBOpen(cb) ==
  [cb EXCEPT !.state = "open",
             !.successCount = 0,
             !.resetTimer = TRUE,
             !.staleTimers = IF cb.timerPending THEN @ + 1 ELSE @,
             !.timerPending = TRUE,
             !.halfOpenSuccs = 0]

\* halfOpen(): lines 394-398.
CBHalfOpen(cb) ==
  [cb EXCEPT !.state = "half-open",
             !.failureCount = 0,
             !.successCount = 0,
             !.halfOpenSuccs = IF cb.state = "half-open" THEN @ ELSE 0]

\* close(): lines 400-409.
CBClose(cb) ==
  [cb EXCEPT !.state = "closed",
             !.failureCount = 0,
             !.successCount = 0,
             !.timerPending = IF cb.resetTimer THEN FALSE ELSE @,
             !.resetTimer = FALSE,
             !.closedFails = 0,
             !.halfOpenSuccs = 0]

\* onSuccess(): lines 360-369.
CBOnSuccess(cb) ==
  LET c1 == [cb EXCEPT !.failureCount = 0, !.closedFails = 0] IN
  IF c1.state = "half-open"
    THEN LET c2 == [c1 EXCEPT !.successCount = @ + 1, !.halfOpenSuccs = @ + 1] IN
         IF c2.successCount >= c2.successThreshold THEN CBClose(c2) ELSE c2
    ELSE c1

\* onFailure(error): lines 371-383.  (CBOnFailureMutGreater opens one failure
\* late.)
CBOnFailureMutGreater(cb, error) ==
  LET c1 == [cb EXCEPT !.failureCount = @ + 1,
                       !.lastFailure = error,
                       !.closedFails = IF cb.state = "closed" THEN @ + 1 ELSE @] IN
  IF c1.state = "half-open" THEN CBOpen(c1)
  ELSE IF c1.failureCount > c1.failureThreshold THEN CBOpen(c1)
  ELSE c1

CBOnFailure(cb, error) ==
  LET c1 == [cb EXCEPT !.failureCount = @ + 1,
                       !.lastFailure = error,
                       !.closedFails = IF cb.state = "closed" THEN @ + 1 ELSE @] IN
  IF c1.state = "half-open" THEN CBOpen(c1)
  ELSE IF c1.failureCount >= c1.failureThreshold THEN CBOpen(c1)
  ELSE c1

\* The callback of the timer of open(), lines 389-391.  Timers of one breaker
\* have the same delay, so they fire in the order they were started.
CBTimerFires(cb) ==
  IF cb.staleTimers > 0
    THEN CBHalfOpen([cb EXCEPT !.staleTimers = @ - 1])
    ELSE CBHalfOpen([cb EXCEPT !.timerPending = FALSE])

CBHasTimer(cb) == cb.timerPending \/ cb.staleTimers > 0

\* execute(fn), line 346: whether the call is rejected before fn is invoked.
CBRejectsMutNever(cb) == FALSE

CBRejects(cb) == cb.state = "open"


(***************************************************************************)
(* Event (lines 68-122).                                                   *)
(*                                                                         *)
(* Events have one type; the payload is its aggregateId.  Of the metadata, *)
(* timestamp and spanId are kept, and traceId, which stands for the fields *)
(* the constructor takes from the options (version, correlationId,         *)
(* causationId, source, userId, traceId).  An option that is absent has    *)
(* the value Absent, which is falsy like the 0 it is; options.metadata is  *)
(* a record of metadata fields, NoMetadata when absent.  `now` is what     *)
(* Date.now() returns and `rnd` the suffix the generate* methods draw.     *)
(***************************************************************************)
Absent == 0
DefaultMaxRetries == 3
DefaultRetryDelay == 1000
Clock == 0..MaxClock

\* The published events are constructed at time 0 with draw 0; where the bus
\* rebuilds one with fromJSON (retry, replay) it is at the later time Later and
\* with another draw, Redrawn.
Later == MaxClock
Redrawn == MaxClock
MetadataFields == {"timestamp", "traceId", "spanId"}
NoMetadata == [f \in {} |-> Absent]

\* generateId, generateTraceId, generateSpanId, lines 90-100: a string that is
\* not empty, with the suffix drawn.
Generated(rnd) == rnd + 1

\* constructor, lines 69-88.
Event(payload, options, now, rnd) ==
  LET defaults == [ timestamp |-> now,
                    traceId   |-> IF options.traceId # Absent THEN options.traceId
                                  ELSE Generated(rnd),
                    spanId    |-> Generated(rnd) ] IN
  [ id         |-> IF options.id # Absent THEN options.id ELSE Generated(rnd),
    payload    |-> payload,
    metadata   |-> [f \in MetadataFields |->
                      IF f \in DOMAIN options.metadata THEN options.metadata[f]
                      ELSE defaults[f]],
    status     |-> "pending",
    attempts   |-> 0,
    maxRetries |-> IF options.maxRetries # Absent THEN options.maxRetries
                   ELSE DefaultMaxRetries,
    retryDelay |-> IF options.retryDelay # Absent THEN options.retryDelay
                   ELSE DefaultRetryDelay ]

\* toJSON, lines 102-111.
ToJSON(event) ==
  [ id       |-> event.id,
    payload  |-> event.payload,
    metadata |-> event.metadata,
    status   |-> event.status,
    attempts |-> event.attempts ]

\* fromJSON, lines 113-121: the options are { id: json.id, ...json.metadata }.
FromJSON(json, now, rnd) ==
  LET event == Event(json.payload,
                     [ id |-> json.id, traceId |-> json.metadata.traceId,
                       maxRetries |-> Absent, retryDelay |-> Absent,
                       metadata |-> NoMetadata ],
                     now, rnd) IN
  [event EXCEPT !.status = json.status, !.attempts = json.attempts]


(***************************************************************************)
(* EventBus (lines 505-733), with its EventStore and DeadLetterQueue.      *)
(*                                                                         *)
(* Events have one type, "order"; handlers are registered for it and for   *)
(* the wildcard "*".  A handlerConfig (lines 547-554) holds the handler,   *)
(* its priority, its filter ("none", or what the predicate answers for     *)
(* the events: "accept" or "reject") and the id of its own breaker, or     *)
(* NoBreaker.                                                              *)
(***************************************************************************)
Pubs == 1..MaxPub
ReplaySlot == 0
NoBreaker == 0
EventType == "order"
Wildcard == "*"
Aggregates == {"A1", "A2"}

\* The state the operations below read and write, as one record.
BusState ==
  [ cbs |-> cbs, events |-> events, pub |-> pub, store |-> store,
    assigned |-> assigned, dlq |-> dlq, metrics |-> metrics,
    openInvoked |-> openInvoked ]

\* A call of publish, or (slot ReplaySlot) of process by replay: where it is
\* suspended, options.persist, the middleware array applyMiddlewares iterates,
\* the handler list process took, and its history (epoch: the number of
\* clear() calls made before the call; nTyped: how many entries of the handler
\* list are the type-specific ones, the others being the wildcard ones;
\* inFlightAtClear: clear() was called while the backoff timer the call awaits
\* was pending).
NewPub ==
  [ pc |-> "idle", idx |-> 0, mwIdx |-> 0, persist |-> TRUE, mws |-> <<>>,
    all |-> <<>>, nTyped |-> 0, epoch |-> 0, error |-> "null",
    invoked |-> [i \in 1..MaxHandlers |-> 0], failed |-> 0, succeeded |-> 0,
    inFlightAtClear |-> FALSE ]

\* The Event a caller publishes in slot p: id p, payload of aggregate a,
\* maxRetries m, the other options absent.
PublishedEvent(p, a, m) ==
  Event(a, [ id |-> p, traceId |-> Absent, maxRetries |-> m, retryDelay |-> Absent,
             metadata |-> NoMetadata ], 0, 0)

\* publish, lines 595-598: the catch of the publish call.  replay (lines
\* 700-703) has no catch: a rejection of process rejects replay.
\* (PublishRejectsMutNoCount leaves metrics.failed as it is.)
PublishRejectsMutNoCount(s, p, error) ==
  [s EXCEPT !.pub[p].pc = "rejected",
            !.pub[p].error = error]

PublishRejects(s, p, error) ==
  IF p = ReplaySlot
    THEN [s EXCEPT !.pub[p].pc = "rejected",
                   !.pub[p].error = error]
    ELSE [s EXCEPT !.metrics.failed = @ + 1,
                   !.pub[p].pc = "rejected",
                   !.pub[p].error = error]

\* process, lines 643-645, then publish, lines 590-593; for replay, process
\* alone.  (ProcessCompletesMutPublished counts a replayed event as published.)
ProcessCompletesMutPublished(s, p) ==
  [s EXCEPT !.events[p].status = "completed",
            !.metrics.processed = @ + 1,
            !.metrics.published = @ + 1,
            !.pub[p].pc = IF p = ReplaySlot THEN "processed" ELSE "resolved"]

\* (ProcessCompletesMutShared has the store hold the Event object itself, so
\* that the stored records of the event show its new status.)
ProcessCompletesMutShared(s, p) ==
  [s EXCEPT !.events[p].status = "completed",
            !.metrics.processed = @ + 1,
            !.metrics.published = IF p = ReplaySlot THEN @ ELSE @ + 1,
            !.pub[p].pc = IF p = ReplaySlot THEN "processed" ELSE "resolved",
            !.store = [j \in 1..Len(@) |->
                         IF @[j].id = s.events[p].id
                           THEN [@[j] EXCEPT !.status = "completed"] ELSE @[j]]]

ProcessCompletes(s, p) ==
  IF p = ReplaySlot
    THEN [s EXCEPT !.events[p].status = "completed",
                   !.metrics.processed = @ + 1,
                   !.pub[p].pc = "processed"]
    ELSE [s EXCEPT !.events[p].status = "completed",
                   !.metrics.processed = @ + 1,
                   !.metrics.published = @ + 1,
                   !.pub[p].pc = "resolved"]

\* executeHandler, lines 648-654: the handler is called; `kind` says whether by
\* the loop of process ("handler") or by handleProcessingError ("retry").
InvokeHandler(s, p, i, kind) ==
  LET hc == s.pub[p].all[i] IN
  [s EXCEPT !.pub[p].pc = kind,
            !.pub[p].idx = i,
            !.pub[p].invoked[i] = @ + 1,
            !.openInvoked = @ \/ (/\ hc.circuitBreaker # NoBreaker
                                  /\ s.cbs[hc.circuitBreaker].state = "open")]

\* DeadLetterQueue.notifyHandlers, lines 309-319: whether it throws.
NotifyHandlersThrows(type) ==
  \/ dlqHandlers[type] = "throws"
  \/ dlqHandlers[Wildcard] = "throws"

\* DeadLetterQueue.notifyHandlers, lines 309-319: the handlers it invokes.
NotifyHandlers(type) ==
  IF dlqHandlers[type] = "throws" THEN {type}
  ELSE { t \in {type, Wildcard} : dlqHandlers[t] # "none" }

\* DeadLetterQueue.add, lines 239-258: the queue after the push, the shift and
\* notifyHandlers.  `notified` is a history field of the entry: the handlers
\* that were invoked for it.  (DLQAddMutPop evicts the entry just added.)
DLQAddMutPop(queue, event, error) ==
  LET deadLetter == [ event |-> ToJSON(event), error |-> error,
                      retryCount |-> event.attempts,
                      notified |-> NotifyHandlers(EventType) ]
      pushed == Append(queue, deadLetter) IN
  IF Len(pushed) > DLQMaxSize THEN SubSeq(pushed, 1, Len(pushed) - 1) ELSE pushed

DLQAdd(queue, event, error) ==
  LET deadLetter == [ event |-> ToJSON(event), error |-> error,
                      retryCount |-> event.attempts,
                      notified |-> NotifyHandlers(EventType) ]
      pushed == Append(queue, deadLetter) IN
  IF Len(pushed) > DLQMaxSize THEN Tail(pushed) ELSE pushed

RECURSIVE RunHandlers(_, _, _)
RECURSIVE HandleProcessingError(_, _, _, _)

\* process, lines 622-646: the loop over allHandlers from index i on, up to the
\* next await.
RunHandlers(s, p, i) ==
  LET all == s.pub[p].all IN
  IF i > Len(all) THEN ProcessCompletes(s, p)
  ELSE IF all[i].filter = "reject" THEN RunHandlers(s, p, i + 1)
  ELSE IF /\ all[i].circuitBreaker # NoBreaker
          /\ CBRejects(s.cbs[all[i].circuitBreaker])
         THEN HandleProcessingError(s, p, i, "CircuitOpen")
  ELSE InvokeHandler(s, p, i, "handler")

\* handleProcessingError, lines 656-675, up to the await of the backoff; after
\* the dead-letter branch returns, the loop of process goes on.
HandleProcessingError(s, p, i, error) ==
  LET attempts == s.events[p].attempts + 1 IN
  IF attempts < s.events[p].maxRetries
    THEN [s EXCEPT !.events[p].attempts = attempts,
                   !.events[p].status = "retrying",
                   !.metrics.retried = @ + 1,
                   !.pub[p].pc = "backoff",
                   !.pub[p].inFlightAtClear = FALSE,
                   !.pub[p].idx = i]
    ELSE LET event == [s.events[p] EXCEPT !.attempts = attempts,
                                          !.status = "dead_letter"]
             s1 == [s EXCEPT !.events[p] = event,
                             !.dlq = DLQAdd(@, event, error)] IN
         IF NotifyHandlersThrows(EventType)
           THEN PublishRejects(s1, p, "DLQHandlerError")
           ELSE RunHandlers(s1, p, i + 1)

\* The callbacks of subscribers[type], in insertion order.
Callbacks(type) == [i \in 1..Len(subscribers[type]) |-> <<type, i>>]

RECURSIVE UntilThrow(_)
\* The callbacks of a list up to and with the first one that throws.
UntilThrow(callbacks) ==
  IF callbacks = <<>> THEN <<>>
  ELSE IF subscribers[Head(callbacks)[1]][Head(callbacks)[2]] = "throws"
         THEN <<Head(callbacks)>>
  ELSE <<Head(callbacks)>> \o UntilThrow(Tail(callbacks))

\* EventStore.notifySubscribers, lines 206-217: the callbacks it calls, each
\* inside its own try/catch.  (NotifySubscribersMutNoCatch stops at the first
\* callback that throws.)
NotifySubscribersMutNoCatch(type) ==
  UntilThrow(Callbacks(type) \o Callbacks(Wildcard))

NotifySubscribers(type) ==
  Callbacks(type) \o Callbacks(Wildcard)

\* EventStore.append, lines 135-147: the log after the push.  storedAt is left
\* out; `notified` is a history field: the callbacks that were called for the
\* event.  (StoreAppendMutCount numbers from 1.)
StoreAppendMutCount(log, event) ==
  Append(log, [ id |-> event.id, payload |-> event.payload,
                metadata |-> event.metadata, status |-> event.status,
                attempts |-> event.attempts, sequence |-> Len(log) + 1,
                notified |-> NotifySubscribers(EventType) ])

StoreAppend(log, event) ==
  LET json == ToJSON(event) IN
  Append(log, [ id |-> json.id, payload |-> json.payload,
                metadata |-> json.metadata, status |-> json.status,
                attempts |-> json.attempts, sequence |-> Len(log),
                notified |-> NotifySubscribers(EventType) ])

\* EventStore.getEvents, lines 149-167, for one event type; a bound that is
\* undefined is Undefined.  (GetEventsMutExclusive leaves toSequence out.)
Undefined == -1

GetEventsMutExclusive(log, aggregateId, fromSequence, toSequence) ==
  LET byAggregate == SelectSeq(log, LAMBDA e : e.payload = aggregateId)
      from == IF fromSequence # Undefined
                THEN SelectSeq(byAggregate, LAMBDA e : e.sequence >= fromSequence)
                ELSE byAggregate IN
  IF toSequence # Undefined
    THEN SelectSeq(from, LAMBDA e : e.sequence < toSequence)
    ELSE from

GetEvents(log, aggregateId, fromSequence, toSequence) ==
  LET byAggregate == SelectSeq(log, LAMBDA e : e.payload = aggregateId)
      from == IF fromSequence # Undefined
                THEN SelectSeq(byAggregate, LAMBDA e : e.sequence >= fromSequence)
                ELSE byAggregate IN
  IF toSequence # Undefined
    THEN SelectSeq(from, LAMBDA e : e.sequence <= toSequence)
    ELSE from

\* publish, lines 573-580: the call with an Event and options.persist, up to
\* the await of applyMiddlewares, whose loop (line 531) iterates the array
\* this.middlewares holds at the call.
StartPublishOf(s, p, event, persist) ==
  [s EXCEPT !.events[p] = event,
            !.pub[p].pc = "middleware",
            !.pub[p].mwIdx = 1,
            !.pub[p].mws = middlewares,
            !.pub[p].epoch = clears,
            !.pub[p].persist = persist]

StartPublish(s, p, m) ==
  StartPublishOf(s, p, PublishedEvent(p, "A1", m), TRUE)

\* EventStore.getEventCount, lines 219-221.
GetEventCount(log) == Len(log)

\* publish, lines 583-585.  (PersistMutNever never appends.)
PersistMutNever(s, p) == s

Persist(s, p) ==
  IF s.pub[p].persist
    THEN [s EXCEPT !.store = StoreAppend(@, s.events[p]),
                   !.assigned = Append(@, Len(s.store))]
    ELSE s

\* The new values of the variables a bus operation writes.
Becomes(s) ==
  /\ cbs' = s.cbs
  /\ events' = s.events
  /\ pub' = s.pub
  /\ store' = s.store
  /\ assigned' = s.assigned
  /\ dlq' = s.dlq
  /\ metrics' = s.metrics
  /\ openInvoked' = s.openInvoked

NoSubscribers == [t \in {EventType, Wildcard} |-> <<>>]

BusIdle ==
  /\ handlers = [t \in {EventType, Wildcard} |-> <<>>]
  /\ middlewares = <<>>
  /\ dlqHandlers = [t \in {EventType, Wildcard} |-> "none"]
  /\ subscribers = NoSubscribers
  /\ events = [p \in Pubs |-> PublishedEvent(p, "A1", 1)]
  /\ pub = [p \in Pubs |-> NewPub]
  /\ store = <<>>
  /\ assigned = <<>>
  /\ dlq = <<>>
  /\ metrics = [published |-> 0, processed |-> 0, failed |-> 0, retried |-> 0]
  /\ batch = <<>>
  /\ batchResults = <<>>
  /\ openInvoked = FALSE

\* No replay was called and no retry or remove of the DeadLetterQueue, no saga
\* is registered with the bus and clear() was not called.
ReplayIdle ==
  /\ sagas = {}
  /\ clears = 0
  /\ subs = 0
  /\ replay = [ pc |-> "idle", aggregateId |-> "A1", fromSequence |-> Undefined,
                toSequence |-> Undefined, events |-> <<>>, pos |-> 0,
                processed |-> <<>>, count |-> Undefined ]
  /\ returned = [ op |-> "none", id |-> Absent, value |-> FALSE ]

\* No round trip through toJSON and fromJSON is made.
RestIdle ==
  /\ ReplayIdle
  /\ roundTrip = [ event |-> PublishedEvent(1, "A1", 1),
                   json |-> ToJSON(PublishedEvent(1, "A1", 1)),
                   copy |-> PublishedEvent(1, "A1", 1), stage |-> "event" ]


(***************************************************************************)
(* Saga (lines 424-500).                                                   *)
(*                                                                         *)
(* steps[i] says whether step i was added with a compensate function.  A   *)
(* compensation is named by the index of its step, NoCompensation is the   *)
(* undefined one.  The context maps "init" to the run whose initialContext *)
(* it was copied from, step i's own key to the run whose step wrote it (0  *)
(* when absent), and "shared", a key every step's result holds, to the     *)
(* step that wrote it last (0: initialContext).  Of a run, completed,       *)
(* compensated, wasCompensating and threw are history fields: the steps    *)
(* that completed, the compensations that were invoked, whether the state  *)
(* was set to COMPENSATING, and whether the compensation that settled last *)
(* threw; elapsed and stepElapsed are the ticks of the clock since run was  *)
(* called and since the timer of the awaited step was started (line 451).  *)
(***************************************************************************)
Runs == 1..MaxRuns
NoCompensation == 0

NewSaga(steps) ==
  [ steps |-> steps, compensations |-> <<>>, currentStep |-> 0,
    state |-> "pending",
    context |-> [init |-> 0, shared |-> 0, own |-> [i \in 1..MaxSteps |-> 0]] ]

NewRun ==
  [ pc |-> "idle", i |-> 0, k |-> 0, error |-> "null",
    result |-> [init |-> 0, shared |-> 0, own |-> [i \in 1..MaxSteps |-> 0]],
    completed |-> <<>>, compensated |-> <<>>, wasCompensating |-> FALSE,
    threw |-> FALSE, elapsed |-> 0, stepElapsed |-> 0 ]

SagaIdle ==
  /\ saga = NewSaga(<<>>)
  /\ runs = [r \in Runs |-> NewRun]

\* run, line 441: the copy of initialContext of run r.
InitialContext(r) == [init |-> r, shared |-> 0, own |-> [i \in 1..MaxSteps |-> 0]]

\* run, line 454: the shallow merge of the result of step i of run r.
MergeResult(context, r, i) ==
  [context EXCEPT !.shared = i, !.own[i] = r]

\* run, line 455: compensations.unshift(step.compensate).
Unshift(compensations, sg, i) ==
  <<IF sg.steps[i] THEN i ELSE NoCompensation>> \o compensations

RECURSIVE Compensate(_, _, _, _)
\* compensate, lines 471-481: the loop over this.compensations from index k on,
\* up to the next await; after the loop, line 481 and the throw of line 464.
Compensate(sg, rn, r, k) ==
  IF k > Len(sg.compensations)
    THEN [ saga |-> [sg EXCEPT !.state = "failed"],
           runs |-> [rn EXCEPT ![r].pc = "rejected"] ]
  ELSE IF sg.compensations[k] = NoCompensation
    THEN Compensate(sg, rn, r, k + 1)
  ELSE [ saga |-> sg,
         runs |-> [rn EXCEPT ![r].pc = "compensation",
                             ![r].k = k,
                             ![r].compensated = Append(@, sg.compensations[k])] ]

\* compensate, lines 473-477: the awaited compensation of run r settled; a
\* rejection is caught and logged, and the loop goes on either way.
\* (CompensationSettledMutRethrow lets the rejection leave compensate and run.)
CompensationSettledMutRethrow(sg, rn, r, ok) ==
  IF ok
    THEN Compensate(sg, rn, r, rn[r].k + 1)
    ELSE [ saga |-> sg,
           runs |-> [rn EXCEPT ![r].pc = "rejected",
                               ![r].error = "CompensationError",
                               ![r].threw = TRUE] ]

CompensationSettled(sg, rn, r, ok) ==
  Compensate(sg, [rn EXCEPT ![r].threw = ~ok], r, rn[r].k + 1)

(***************************************************************************)
(* The bus in use.  The registrations (subscribe, use, registerHandler)    *)
(* are made before the first publish: Init draws them.  handlers[t] is     *)
(* kept sorted by descending priority (line 557); here all priorities are  *)
(* the default 0, so the order is the order of registration.  reg is a     *)
(* history field of a handlerConfig: the number of the subscribe call     *)
(* that made it.                                                           *)
(***************************************************************************)
HandlerConfig(i, f, c) ==
  [ handler |-> i, priority |-> 0, filter |-> f,
    circuitBreaker |-> IF c THEN i ELSE NoBreaker, reg |-> i ]

\* The registries with n registrations, the first k for EventType and the
\* others for the wildcard.
Registries(n, k) ==
  { [t \in {EventType, Wildcard} |->
       IF t = EventType THEN SubSeq(regs, 1, k) ELSE SubSeq(regs, k + 1, n)] :
    regs \in { r \in [1..n -> { HandlerConfig(i, f, c) :
                                  i \in 1..n, f \in {"none", "reject"},
                                  c \in BOOLEAN }] :
               \A i \in 1..n : r[i].handler = i } }

AllConfigs(h) == h[EventType] \o h[Wildcard]
HasBreaker(h) == \E i \in 1..Len(AllConfigs(h)) : AllConfigs(h)[i].circuitBreaker # NoBreaker
HasFilter(h) == \E i \in 1..Len(AllConfigs(h)) : AllConfigs(h)[i].filter # "none"

NoDLQHandlers == [t \in {EventType, Wildcard} |-> "none"]

\* The bus before the first publish.  Two families of set-ups: any handler
\* registrations and dead-letter handlers with no middleware, and middlewares
\* in front of plain handlers.
InitBus ==
  /\ \E n \in 1..MaxHandlers, k \in 0..MaxHandlers :
       /\ n - 1 <= k /\ k <= n
       /\ handlers \in Registries(n, k)
  /\ \E th \in 1..MaxThreshold :
       /\ cbs = [b \in 1..MaxHandlers |-> NewBreaker(th, th)]
       /\ HasBreaker(handlers) \/ th = 1
  /\ \/ /\ middlewares = <<>>
        /\ dlqHandlers \in { NoDLQHandlers,
                             (EventType :> "ok" @@ Wildcard :> "throws"),
                             (EventType :> "throws" @@ Wildcard :> "ok") }
     \/ /\ middlewares \in {<<"pass">>, <<"pass", "drop">>, <<"drop", "pass">>}
        /\ dlqHandlers = NoDLQHandlers
        /\ ~HasFilter(handlers)
        /\ Len(AllConfigs(handlers)) = 1
  /\ subscribers = NoSubscribers
  /\ events = [p \in Pubs |-> PublishedEvent(p, "A1", 1)]
  /\ pub = [p \in Pubs |-> NewPub]
  /\ store = <<>>
  /\ assigned = <<>>
  /\ dlq = <<>>
  /\ metrics = [published |-> 0, processed |-> 0, failed |-> 0, retried |-> 0]
  /\ batch = <<>>
  /\ batchResults = <<>>
  /\ openInvoked = FALSE
  /\ execs = 0
  /\ nCalls = 0
  /\ lastExec = "none"
  /\ SagaIdle
  /\ RestIdle

\* publish(event), lines 573-580, called on its own.
Publish(p, m) ==
  /\ pub[p].pc = "idle"
  /\ \A q \in Pubs : q < p => pub[q].pc # "idle"
  /\ Becomes(StartPublish(BusState, p, m))
  /\ UNCHANGED <<registryVars, restVars, sagaVars, execs, nCalls, lastExec, handlers, middlewares,
                 dlqHandlers, subscribers, batch, batchResults>>

RECURSIVE StartAll(_, _, _)
\* publishBatch, line 604: events.map calls publish for each event in turn.
StartAll(s, evs, ms) ==
  IF evs = <<>> THEN s
  ELSE StartAll(StartPublish(s, Head(evs), ms[Head(evs)]), Tail(evs), ms)

\* publishBatch(events), lines 602-605, up to the await of allSettled.
PublishBatch(n, ms) ==
  /\ batch = <<>>
  /\ \A p \in Pubs : pub[p].pc = "idle"
  /\ batch' = [k \in 1..n |-> k]
  /\ Becomes(StartAll(BusState, [k \in 1..n |-> k], ms))
  /\ UNCHANGED <<registryVars, restVars, sagaVars, execs, nCalls, lastExec, handlers, middlewares,
                 dlqHandlers, subscribers, batchResults>>

\* applyMiddlewares, line 533: whether what the middleware returned is falsy.
\* A middleware is "pass" when it returns an event and "drop" when it returns
\* nothing.  (ChainBrokenMutNever takes every result.)
ChainBrokenMutNever(currentEvent) == FALSE

ChainBroken(currentEvent) == currentEvent = "drop"

\* applyMiddlewares, lines 531-536: the awaited middleware returns.
MiddlewareReturns(p) ==
  /\ pub[p].pc = "middleware"
  /\ pub[p].mwIdx <= Len(pub[p].mws)
  /\ IF ChainBroken(pub[p].mws[pub[p].mwIdx])
       THEN Becomes(PublishRejects(BusState, p, "MiddlewareChainBroken"))
       ELSE Becomes([BusState EXCEPT !.pub[p].mwIdx = @ + 1])
  /\ UNCHANGED <<registryVars, restVars, sagaVars, execs, nCalls, lastExec, handlers, middlewares,
                 dlqHandlers, subscribers, batch, batchResults>>

\* process, lines 617-620: allHandlers.  (AllHandlersMutWildcardFirst puts the
\* wildcard handlers first.)
AllHandlersMutWildcardFirst(registry) == registry[Wildcard] \o registry[EventType]

AllHandlers(registry) == registry[EventType] \o registry[Wildcard]

\* process, lines 616-622, up to its first await.
Process(s, p) ==
  RunHandlers([s EXCEPT !.events[p].status = "processing",
                        !.pub[p].all = AllHandlers(handlers),
                        !.pub[p].nTyped = Len(handlers[EventType])],
              p, 1)

\* publish resumes after applyMiddlewares, lines 583-588, and process runs
\* (lines 616-620 and the loop) up to its first await.
PublishResumes(p) ==
  /\ pub[p].pc = "middleware"
  /\ pub[p].mwIdx > Len(pub[p].mws)
  /\ Becomes(Process(Persist(BusState, p), p))
  /\ UNCHANGED <<registryVars, restVars, sagaVars, execs, nCalls, lastExec, handlers, middlewares,
                 dlqHandlers, subscribers, batch, batchResults>>

\* The breaker of a handlerConfig after the handler settled: execute, lines 352
\* and 355.
AfterExecute(s, hc, ok) ==
  IF hc.circuitBreaker = NoBreaker THEN s
  ELSE [s EXCEPT !.cbs[hc.circuitBreaker] =
          IF ok THEN CBOnSuccess(@) ELSE CBOnFailure(@, "HandlerError")]

\* The handler invoked by process settles (a rejection is a throw of the
\* handler or the 30 s deadline of executeHandler): lines 628-640.
HandlerReturns(p, ok) ==
  /\ pub[p].pc = "handler"
  /\ LET i == pub[p].idx
         s1 == AfterExecute(BusState, pub[p].all[i], ok) IN
     IF ok
       THEN Becomes(RunHandlers([s1 EXCEPT !.pub[p].succeeded = @ + 1], p, i + 1))
       ELSE Becomes(HandleProcessingError([s1 EXCEPT !.pub[p].failed = @ + 1],
                                          p, i, "HandlerError"))
  /\ UNCHANGED <<registryVars, restVars, sagaVars, execs, nCalls, lastExec, handlers, middlewares,
                 dlqHandlers, subscribers, batch, batchResults>>

\* The backoff timer of handleProcessingError fires: lines 664-668.
\* (BackoffEndsMutFullList runs the handler list again from its head.)
BackoffEndsMutFullList(p) ==
  /\ pub[p].pc = "backoff"
  /\ Becomes(RunHandlers(BusState, p, 1))
  /\ UNCHANGED <<registryVars, restVars, sagaVars, execs, nCalls, lastExec, handlers, middlewares,
                 dlqHandlers, subscribers, batch, batchResults>>

BackoffEnds(p) ==
  /\ pub[p].pc = "backoff"
  /\ Becomes(InvokeHandler(BusState, p, pub[p].idx, "retry"))
  /\ UNCHANGED <<registryVars, restVars, sagaVars, execs, nCalls, lastExec, handlers, middlewares,
                 dlqHandlers, subscribers, batch, batchResults>>

\* The handler re-invoked by handleProcessingError settles: line 668, and the
\* await of line 639.
RetryReturns(p, ok) ==
  /\ pub[p].pc = "retry"
  /\ IF ok
       THEN Becomes(RunHandlers([BusState EXCEPT !.pub[p].succeeded = @ + 1],
                                p, pub[p].idx + 1))
       ELSE Becomes(PublishRejects([BusState EXCEPT !.pub[p].failed = @ + 1],
                                   p, "HandlerError"))
  /\ UNCHANGED <<registryVars, restVars, sagaVars, execs, nCalls, lastExec, handlers, middlewares,
                 dlqHandlers, subscribers, batch, batchResults>>

\* A timer started by open() of a handler's breaker expires: lines 389-391.
BreakerTimer(b) ==
  /\ CBHasTimer(cbs[b])
  /\ cbs' = [cbs EXCEPT ![b] = CBTimerFires(@)]
  /\ UNCHANGED <<registryVars, restVars, sagaVars, execs, nCalls, lastExec, busVars>>

Settled(p) == pub[p].pc \in {"resolved", "rejected"}

\* Promise.allSettled, line 603: the result of one publish call.
SettledResult(p) ==
  IF pub[p].pc = "resolved"
    THEN [status |-> "fulfilled", reason |-> "null"]
    ELSE [status |-> "rejected", reason |-> pub[p].error]

\* publishBatch, lines 607-611: the returned array.
BatchResultOfMutAll(evs, results) ==
  [index \in 1..Len(results) |->
     [ event |-> evs[index],
       success |-> \A j \in 1..Len(results) : results[j].status = "fulfilled",
       error |-> IF results[index].status = "rejected"
                   THEN results[index].reason ELSE "null" ]]

BatchResultOf(evs, results) ==
  [index \in 1..Len(results) |->
     [ event |-> evs[index],
       success |-> results[index].status = "fulfilled",
       error |-> IF results[index].status = "rejected"
                   THEN results[index].reason ELSE "null" ]]

\* publishBatch resumes when every publish call has settled: lines 603-611.
BatchReturns ==
  /\ batch # <<>>
  /\ batchResults = <<>>
  /\ \A k \in 1..Len(batch) : Settled(batch[k])
  /\ batchResults' = BatchResultOf(batch, [k \in 1..Len(batch) |-> SettledResult(batch[k])])
  /\ UNCHANGED <<registryVars, restVars, sagaVars, cbs, execs, nCalls, lastExec, handlers, middlewares,
                 dlqHandlers, subscribers, events, pub, store, assigned, dlq, metrics,
                 batch, openInvoked>>

Next ==
  \/ \E p \in Pubs, m \in 1..MaxRetries : Publish(p, m)
  \/ \E n \in Pubs, ms \in [Pubs -> 1..MaxRetries] : PublishBatch(n, ms)
  \/ \E p \in Pubs : MiddlewareReturns(p)
  \/ \E p \in Pubs : PublishResumes(p)
  \/ \E p \in Pubs, ok \in BOOLEAN : HandlerReturns(p, ok)
  \/ \E p \in Pubs : BackoffEnds(p)
  \/ \E p \in Pubs, ok \in BOOLEAN : RetryReturns(p, ok)
  \/ \E b \in 1..MaxHandlers : BreakerTimer(b)
  \/ BatchReturns

Spec == InitBus /\ [][Next]_vars

(***************************************************************************)
(* A breaker used on its own: its owner calls execute(fn) (lines 345-358), *)
(* the fn() invocations complete later in any order, the timers of open()  *)
(* fire, and the owner may call close().                                   *)
(***************************************************************************)
SoloBreaker == 0

InitCB ==
  /\ \E ft \in 1..MaxThreshold, st \in 1..MaxThreshold :
       cbs = [b \in {SoloBreaker} |-> NewBreaker(ft, st)]
  /\ execs = 0
  /\ nCalls = 0
  /\ lastExec = "none"
  /\ BusIdle
  /\ SagaIdle
  /\ RestIdle

\* execute(fn) up to the await of fn(), lines 346-351.
CBExecuteCall ==
  /\ nCalls < MaxCalls
  /\ nCalls' = nCalls + 1
  /\ IF CBRejects(cbs[SoloBreaker])
       THEN /\ lastExec' = "circuit_open"
            /\ UNCHANGED <<registryVars, cbs, execs, busVars, sagaVars, restVars>>
       ELSE /\ lastExec' = "invoked"
            /\ execs' = execs + 1
            /\ UNCHANGED <<registryVars, cbs, busVars, sagaVars, restVars>>

\* fn() resolved: lines 352-353.
CBExecuteSucceeds ==
  /\ execs > 0
  /\ execs' = execs - 1
  /\ cbs' = [cbs EXCEPT ![SoloBreaker] = CBOnSuccess(@)]
  /\ lastExec' = "ok"
  /\ UNCHANGED <<registryVars, nCalls, busVars, sagaVars, restVars>>

\* fn() rejected: lines 354-356.
CBExecuteFails ==
  /\ execs > 0
  /\ execs' = execs - 1
  /\ cbs' = [cbs EXCEPT ![SoloBreaker] = CBOnFailure(@, "Error")]
  /\ lastExec' = "err"
  /\ UNCHANGED <<registryVars, nCalls, busVars, sagaVars, restVars>>

\* A timer started by open() expires: lines 389-391.
CBTimer ==
  /\ CBHasTimer(cbs[SoloBreaker])
  /\ cbs' = [cbs EXCEPT ![SoloBreaker] = CBTimerFires(@)]
  /\ lastExec' = "timer"
  /\ UNCHANGED <<registryVars, execs, nCalls, busVars, sagaVars, restVars>>

\* The owner calls close(): lines 400-409.
CBManualClose ==
  /\ cbs' = [cbs EXCEPT ![SoloBreaker] = CBClose(@)]
  /\ lastExec' = "close"
  /\ UNCHANGED <<registryVars, execs, nCalls, busVars, sagaVars, restVars>>

NextCB ==
  \/ CBExecuteCall
  \/ CBExecuteSucceeds
  \/ CBExecuteFails
  \/ CBTimer
  \/ CBManualClose

SpecCB == InitCB /\ [][NextCB]_vars

\* The timers of the runtime do fire.
SpecCBFair == InitCB /\ [][NextCB]_vars /\ WF_vars(CBTimer)

Solo == cbs[SoloBreaker]


(***************************************************************************)
(* A saga in use: its steps are added before the first run (Init draws     *)
(* them), then run is called, also while an earlier run is in progress     *)
(* (executeSaga, lines 683-690, runs the one registered object).           *)
(***************************************************************************)
InitSaga ==
  /\ \E n \in 1..MaxSteps : \E steps \in [1..n -> BOOLEAN] : saga = NewSaga(steps)
  /\ runs = [r \in Runs |-> NewRun]
  /\ cbs = [b \in {SoloBreaker} |-> NewBreaker(1, 1)]
  /\ execs = 0
  /\ nCalls = 0
  /\ lastExec = "none"
  /\ BusIdle
  /\ RestIdle

\* run(initialContext), lines 441-452, up to the await of the first step.
SagaRun(r) ==
  /\ runs[r].pc = "idle"
  /\ \A q \in Runs : q < r => runs[q].pc # "idle"
  /\ saga' = [saga EXCEPT !.context = InitialContext(r),
                          !.state = "running",
                          !.currentStep = 0]
  /\ runs' = [runs EXCEPT ![r].pc = "step", ![r].i = 1]
  /\ UNCHANGED <<registryVars, cbVars, busVars, restVars>>

\* The awaited step resolves: lines 454-459; the loop then awaits the next
\* step against a new timer (createTimeout() of line 451).
StepCompletes(r) ==
  /\ runs[r].pc = "step"
  /\ LET i == runs[r].i
         sg == [saga EXCEPT !.context = MergeResult(@, r, i),
                            !.compensations = Unshift(@, saga, i)]
         rn == [runs EXCEPT ![r].completed = Append(@, i)] IN
     IF i < Len(saga.steps)
       THEN /\ saga' = [sg EXCEPT !.currentStep = i]
            /\ runs' = [rn EXCEPT ![r].i = i + 1, ![r].stepElapsed = 0]
       ELSE /\ saga' = [sg EXCEPT !.state = "completed"]
            /\ runs' = [rn EXCEPT ![r].pc = "resolved", ![r].result = sg.context]
  /\ UNCHANGED <<registryVars, cbVars, busVars, restVars>>

\* The awaited step rejects, or the timer of createTimeout (lines 484-490)
\* fires first: lines 461-464, and compensate up to its first await.
StepFails(r, error) ==
  /\ runs[r].pc = "step"
  /\ LET sg == [saga EXCEPT !.state = "compensating"]
         rn == [runs EXCEPT ![r].error = error, ![r].wasCompensating = TRUE]
         after == Compensate(sg, rn, r, 1) IN
     /\ saga' = after.saga
     /\ runs' = after.runs
  /\ UNCHANGED <<registryVars, cbVars, busVars, restVars>>

\* The awaited compensation settles, resolved or rejected: lines 473-477.
CompensationSettles(r, ok) ==
  /\ runs[r].pc = "compensation"
  /\ LET after == CompensationSettled(saga, runs, r, ok) IN
     /\ saga' = after.saga
     /\ runs' = after.runs
  /\ UNCHANGED <<registryVars, cbVars, busVars, restVars>>

NextSaga ==
  \/ \E r \in Runs : SagaRun(r)
  \/ \E r \in Runs : StepCompletes(r)
  \/ \E r \in Runs, error \in {"StepError", "SagaTimeout"} : StepFails(r, error)
  \/ \E r \in Runs, ok \in BOOLEAN : CompensationSettles(r, ok)

SpecSaga == InitSaga /\ [][NextSaga]_vars

(***************************************************************************)
(* The saga and the clock: runs are made one after the other; while a run  *)
(* awaits a step time passes in ticks; the step resolves or rejects before *)
(* the timer that createTimeout (lines 484-490) started for it expires,    *)
(* SagaTimeout ticks after the step was started, or that timer fires.      *)
(***************************************************************************)
\* A tick of the clock while run r awaits a step whose timer has not expired.
Tick(r) ==
  /\ runs[r].pc = "step"
  /\ runs[r].stepElapsed < SagaTimeout
  /\ runs' = [runs EXCEPT ![r].elapsed = @ + 1, ![r].stepElapsed = @ + 1]
  /\ UNCHANGED <<registryVars, cbVars, busVars, restVars, saga>>

\* The timer of createTimeout rejects the race of the awaited step: lines
\* 486-488.
TimeoutFires(r) ==
  /\ runs[r].stepElapsed = SagaTimeout
  /\ StepFails(r, "SagaTimeout")

NextSagaTime ==
  \/ \E r \in Runs : SagaRun(r) /\ \A q \in Runs : runs[q].pc \in {"idle", "resolved", "rejected"}
  \/ \E r \in Runs : Tick(r)
  \/ \E r \in Runs : StepCompletes(r) /\ runs[r].stepElapsed < SagaTimeout
  \/ \E r \in Runs : StepFails(r, "StepError") /\ runs[r].stepElapsed < SagaTimeout
  \/ \E r \in Runs : TimeoutFires(r)
  \/ \E r \in Runs, ok \in BOOLEAN : CompensationSettles(r, ok)

SpecSagaTime == InitSaga /\ [][NextSagaTime]_vars

(***************************************************************************)
(* The EventStore in use behind a bus with one plain handler: events of    *)
(* two aggregates are published with and without options.persist, the     *)
(* store has subscribers (EventStore.subscribe, lines 195-204, called      *)
(* before the first publish) of which the first of each list throws, the   *)
(* owner calls eventStore.clear(), and replay is called once, with any     *)
(* bounds, while publishes are in progress.  The handler resolves for the  *)
(* published events and resolves or rejects for the replayed ones.         *)
(***************************************************************************)
Slots == Pubs \cup {ReplaySlot}

InitStore ==
  /\ handlers = (EventType :> <<HandlerConfig(1, "none", FALSE)>> @@ Wildcard :> <<>>)
  /\ cbs = [b \in 1..MaxHandlers |-> NewBreaker(1, 1)]
  /\ middlewares = <<>>
  /\ dlqHandlers = NoDLQHandlers
  /\ subscribers = (EventType :> <<"throws", "ok">> @@ Wildcard :> <<"throws", "ok">>)
  /\ events = [p \in Slots |-> PublishedEvent(p, "A1", 1)]
  /\ pub = [p \in Slots |-> NewPub]
  /\ store = <<>>
  /\ assigned = <<>>
  /\ dlq = <<>>
  /\ metrics = [published |-> 0, processed |-> 0, failed |-> 0, retried |-> 0]
  /\ batch = <<>>
  /\ batchResults = <<>>
  /\ openInvoked = FALSE
  /\ execs = 0
  /\ nCalls = 0
  /\ lastExec = "none"
  /\ SagaIdle
  /\ RestIdle

\* publish(event, {persist}), lines 573-580, for an event of aggregate a.
PublishTo(p, a, persist) ==
  /\ pub[p].pc = "idle"
  /\ \A q \in Pubs : q < p => pub[q].pc # "idle"
  /\ Becomes(StartPublishOf(BusState, p, PublishedEvent(p, a, 1), persist))
  /\ UNCHANGED <<registryVars, restVars, sagaVars, execs, nCalls, lastExec, handlers, middlewares,
                 dlqHandlers, subscribers, batch, batchResults>>

\* EventStore.clear(), lines 223-226.
StoreClear ==
  /\ store' = <<>>
  /\ UNCHANGED <<registryVars, restVars, sagaVars, cbVars, handlers, middlewares, dlqHandlers,
                 subscribers, events, pub, assigned, dlq, metrics, batch, batchResults,
                 openInvoked>>

\* replay, lines 700-705, from the k-th selected event on: the event is
\* reconstructed and process called, up to its first await; after the last
\* one replay returns the length of the selection.
ReplayFrom(rp, k) ==
  IF k > Len(rp.events)
    THEN /\ replay' = [rp EXCEPT !.pc = "resolved", !.count = Len(rp.events)]
         /\ UNCHANGED <<cbs, events, pub, store, assigned, dlq, metrics, openInvoked>>
    ELSE /\ replay' = [rp EXCEPT !.pc = "running", !.pos = k,
                                 !.processed = Append(@, rp.events[k].sequence)]
         /\ Becomes(Process([BusState EXCEPT
                               !.events[ReplaySlot] =
                                  FromJSON(rp.events[k], Later, Redrawn),
                               !.pub[ReplaySlot] = NewPub],
                            ReplaySlot))

\* replay(options), lines 693-702: the call.
Replay(a, from, to) ==
  /\ replay.pc = "idle"
  /\ ReplayFrom([replay EXCEPT !.aggregateId = a,
                               !.fromSequence = from,
                               !.toSequence = to,
                               !.events = GetEvents(store, a, from, to)],
                1)
  /\ UNCHANGED <<registryVars, roundTrip, returned, sagaVars, execs, nCalls, lastExec, handlers, middlewares,
                 dlqHandlers, subscribers, batch, batchResults>>

\* The process call awaited by replay resolved: lines 700-705.
ReplayResumes ==
  /\ replay.pc = "running"
  /\ pub[ReplaySlot].pc = "processed"
  /\ ReplayFrom(replay, replay.pos + 1)
  /\ UNCHANGED <<registryVars, roundTrip, returned, sagaVars, execs, nCalls, lastExec, handlers, middlewares,
                 dlqHandlers, subscribers, batch, batchResults>>

\* The process call awaited by replay rejected: replay rejects, line 702.
ReplayRejects ==
  /\ replay.pc = "running"
  /\ pub[ReplaySlot].pc = "rejected"
  /\ replay' = [replay EXCEPT !.pc = "rejected"]
  /\ UNCHANGED <<registryVars, roundTrip, returned, sagaVars, cbVars, busVars>>

NextStore ==
  \/ \E p \in Pubs, a \in Aggregates, persist \in BOOLEAN : PublishTo(p, a, persist)
  \/ \E p \in Pubs : PublishResumes(p)
  \/ \E p \in Pubs : HandlerReturns(p, TRUE)
  \/ \E ok \in BOOLEAN : HandlerReturns(ReplaySlot, ok)
  \/ BackoffEnds(ReplaySlot)
  \/ \E ok \in BOOLEAN : RetryReturns(ReplaySlot, ok)
  \/ StoreClear
  \/ \E a \in Aggregates, from \in {Undefined} \cup (0..MaxPub - 1),
        to \in {Undefined} \cup (0..MaxPub - 1) :
       Replay(a, from, to)
  \/ ReplayResumes
  \/ ReplayRejects

SpecStore == InitStore /\ [][NextStore]_vars

(***************************************************************************)
(* The DeadLetterQueue in use behind a bus with two plain handlers, one    *)
(* for the event type and one for the wildcard: events are published, and  *)
(* the owner calls deadLetterQueue.retry(id, bus) and remove(id) with the  *)
(* ids of the published events at any time.  A republished event takes the *)
(* next free publish slot.                                                 *)
(***************************************************************************)
\* findIndex, lines 282 and 297: the index of the first entry of event id, 0
\* (for -1) when there is none.
FindIndex(queue, id) ==
  IF \E j \in 1..Len(queue) : queue[j].event.id = id
    THEN CHOOSE j \in 1..Len(queue) :
           /\ queue[j].event.id = id
           /\ \A k \in 1..(j - 1) : queue[k].event.id # id
    ELSE 0

\* queue.splice(index, 1), lines 290 and 299.  (SpliceMutNone removes nothing.)
SpliceMutNone(queue, index) == queue

Splice(queue, index) ==
  SubSeq(queue, 1, index - 1) \o SubSeq(queue, index + 1, Len(queue))

InitDLQ ==
  /\ handlers = (EventType :> <<HandlerConfig(1, "none", FALSE)>> @@
                 Wildcard :> <<HandlerConfig(2, "none", FALSE)>>)
  /\ cbs = [b \in 1..MaxHandlers |-> NewBreaker(1, 1)]
  /\ middlewares = <<>>
  /\ dlqHandlers \in { NoDLQHandlers,
                       (EventType :> "ok" @@ Wildcard :> "throws"),
                       (EventType :> "throws" @@ Wildcard :> "ok") }
  /\ subscribers = NoSubscribers
  /\ events = [p \in Pubs |-> PublishedEvent(p, "A1", 1)]
  /\ pub = [p \in Pubs |-> NewPub]
  /\ store = <<>>
  /\ assigned = <<>>
  /\ dlq = <<>>
  /\ metrics = [published |-> 0, processed |-> 0, failed |-> 0, retried |-> 0]
  /\ batch = <<>>
  /\ batchResults = <<>>
  /\ openInvoked = FALSE
  /\ execs = 0
  /\ nCalls = 0
  /\ lastExec = "none"
  /\ SagaIdle
  /\ RestIdle

\* The slot the next publish call takes.
NextSlot == CHOOSE q \in Pubs : pub[q].pc = "idle" /\ \A o \in Pubs : o < q => pub[o].pc # "idle"

\* retry(deadLetterId, eventBus), lines 281-294; publish is called and runs up
\* to the await of applyMiddlewares.
DLQRetry(id) ==
  LET index == FindIndex(dlq, id) IN
  IF index = 0
    THEN /\ returned' = [op |-> "retry", id |-> id, value |-> FALSE]
         /\ UNCHANGED <<registryVars, replay, roundTrip, sagaVars, cbVars, busVars>>
    ELSE /\ \E q \in Pubs : pub[q].pc = "idle"
         /\ LET deadLetter == dlq[index]
                event == [FromJSON(deadLetter.event, Later, Redrawn) EXCEPT
                            !.status = "retrying", !.attempts = 0]
                s1 == [BusState EXCEPT !.dlq = Splice(@, index)] IN
            Becomes(StartPublishOf(s1, NextSlot, event, TRUE))
         /\ returned' = [op |-> "retry", id |-> id, value |-> TRUE]
         /\ UNCHANGED <<registryVars, replay, roundTrip, sagaVars, execs, nCalls, lastExec, handlers,
                        middlewares, dlqHandlers, subscribers, batch, batchResults>>

\* remove(deadLetterId), lines 296-303.
DLQRemove(id) ==
  LET index == FindIndex(dlq, id) IN
  /\ dlq' = IF index # 0 THEN Splice(dlq, index) ELSE dlq
  /\ returned' = [op |-> "remove", id |-> id, value |-> index # 0]
  /\ UNCHANGED <<registryVars, replay, roundTrip, sagaVars, cbVars, handlers, middlewares, dlqHandlers,
                 subscribers, events, pub, store, assigned, metrics, batch, batchResults,
                 openInvoked>>

NextDLQ ==
  \/ \E p \in Pubs : Publish(p, 1)
  \/ \E p \in Pubs : PublishResumes(p)
  \/ \E p \in Pubs, ok \in BOOLEAN : HandlerReturns(p, ok)
  \/ \E p \in Pubs : BackoffEnds(p)
  \/ \E p \in Pubs, ok \in BOOLEAN : RetryReturns(p, ok)
  \/ \E id \in Pubs : DLQRetry(id)
  \/ \E id \in Pubs : DLQRemove(id)

SpecDLQ == InitDLQ /\ [][NextDLQ]_vars

(***************************************************************************)
(* A bus that is cleared while in use: one handler for the event type and  *)
(* one for the wildcard, a middleware that passes or one that drops the    *)
(* events, one registered saga; events are published, their handlers       *)
(* resolve or reject, and the owner calls clear() (lines 720-732) at any   *)
(* time, also while publish calls are in progress.  Nothing is registered  *)
(* again after clear().                                                    *)
(***************************************************************************)
\* Map.prototype.clear() of this.handlers and this.sagas, lines 723 and 725:
\* handlers.get(type) || [] is empty for every type afterwards.
\* (MapClearMutKeepWildcard keeps the wildcard registrations.)
MapClearMutKeepWildcard(registry) ==
  [t \in DOMAIN registry |-> IF t = Wildcard THEN registry[t] ELSE <<>>]

MapClear(registry) == [t \in DOMAIN registry |-> <<>>]

\* The metrics object clear() assigns, lines 726-731.
NoMetrics == [published |-> 0, processed |-> 0, failed |-> 0, retried |-> 0]

\* getMetrics(), lines 709-717.
GetMetrics ==
  [ published       |-> metrics.published,
    processed       |-> metrics.processed,
    failed          |-> metrics.failed,
    retried         |-> metrics.retried,
    eventStoreCount |-> GetEventCount(store),
    deadLetterCount |-> Len(dlq),
    handlersCount   |-> Len(handlers[EventType]) + Len(handlers[Wildcard]) ]

InitClear ==
  /\ handlers = (EventType :> <<HandlerConfig(1, "none", FALSE)>> @@
                 Wildcard :> <<HandlerConfig(2, "none", FALSE)>>)
  /\ cbs = [b \in 1..MaxHandlers |-> NewBreaker(1, 1)]
  /\ middlewares \in {<<"pass">>, <<"drop">>}
  /\ dlqHandlers = NoDLQHandlers
  /\ subscribers = NoSubscribers
  /\ events = [p \in Pubs |-> PublishedEvent(p, "A1", 1)]
  /\ pub = [p \in Pubs |-> NewPub]
  /\ store = <<>>
  /\ assigned = <<>>
  /\ dlq = <<>>
  /\ metrics = NoMetrics
  /\ batch = <<>>
  /\ batchResults = <<>>
  /\ openInvoked = FALSE
  /\ execs = 0
  /\ nCalls = 0
  /\ lastExec = "none"
  /\ SagaIdle
  /\ replay = [ pc |-> "idle", aggregateId |-> "A1", fromSequence |-> Undefined,
                toSequence |-> Undefined, events |-> <<>>, pos |-> 0,
                processed |-> <<>>, count |-> Undefined ]
  /\ returned = [ op |-> "none", id |-> Absent, value |-> FALSE ]
  /\ roundTrip = [ event |-> PublishedEvent(1, "A1", 1),
                   json |-> ToJSON(PublishedEvent(1, "A1", 1)),
                   copy |-> PublishedEvent(1, "A1", 1), stage |-> "event" ]
  /\ sagas = {"order-saga"}
  /\ clears = 0
  /\ subs = 0

\* clear(), lines 720-732, with EventStore.clear (lines 223-226) and
\* DeadLetterQueue.clear (lines 325-327).  No timer is cancelled: the backoff
\* timers that are pending stay so.
BusClear ==
  /\ clears < MaxClears
  /\ clears' = clears + 1
  /\ store' = <<>>
  /\ dlq' = <<>>
  /\ handlers' = MapClear(handlers)
  /\ middlewares' = <<>>
  /\ sagas' = {}
  /\ metrics' = NoMetrics
  /\ pub' = [p \in DOMAIN pub |->
               [pub[p] EXCEPT !.inFlightAtClear = @ \/ pub[p].pc = "backoff"]]
  /\ UNCHANGED <<subs, restVars, sagaVars, cbVars, dlqHandlers, subscribers, events,
                 assigned, batch, batchResults, openInvoked>>

NextClear ==
  \/ \E p \in Pubs, m \in 1..MaxRetries : Publish(p, m)
  \/ \E p \in Pubs : MiddlewareReturns(p)
  \/ \E p \in Pubs : PublishResumes(p)
  \/ \E p \in Pubs, ok \in BOOLEAN : HandlerReturns(p, ok)
  \/ \E p \in Pubs : BackoffEnds(p)
  \/ \E p \in Pubs, ok \in BOOLEAN : RetryReturns(p, ok)
  \/ BusClear

SpecClear == InitClear /\ [][NextClear]_vars

(***************************************************************************)
(* A bus whose handlers come and go: subscribe (lines 542-560) and          *)
(* unsubscribe (lines 562-570, also what the function subscribe returns     *)
(* calls) are called at any time with any handler function, for the event   *)
(* type or the wildcard and with any priority, the same function more than  *)
(* once too, while events are published, one after the other, and their     *)
(* handlers resolve.  The registry holds at most MaxHandlers registrations. *)
(***************************************************************************)
Priorities == 0..MaxPriority

\* The handler functions the callers subscribe and unsubscribe.
HandlerFns == {1, 2}

\* Array.prototype.sort with (a, b) => b.priority - a.priority, line 557: the
\* sort is stable, so an element comes after the earlier ones of a priority
\* that is not smaller.  (SortByPriorityMutNone leaves the array as pushed.)
InsertByPriority(sorted, hc) ==
  LET k == Cardinality({ j \in 1..Len(sorted) : sorted[j].priority >= hc.priority }) IN
  SubSeq(sorted, 1, k) \o <<hc>> \o SubSeq(sorted, k + 1, Len(sorted))

SortByPriorityMutNone(list) == list

RECURSIVE SortByPriority(_)
SortByPriority(list) ==
  IF list = <<>> THEN <<>>
  ELSE InsertByPriority(SortByPriority(SubSeq(list, 1, Len(list) - 1)), list[Len(list)])

\* findIndex(h => h.handler === handler), line 565: the index of the first
\* registration of the function, 0 (for -1) when there is none.
FindHandler(list, handler) ==
  IF \E j \in 1..Len(list) : list[j].handler = handler
    THEN CHOOSE j \in 1..Len(list) :
           /\ list[j].handler = handler
           /\ \A k \in 1..(j - 1) : list[k].handler # handler
    ELSE 0

InitSub ==
  /\ handlers = [t \in {EventType, Wildcard} |-> <<>>]
  /\ cbs = [b \in 1..MaxHandlers |-> NewBreaker(1, 1)]
  /\ middlewares = <<>>
  /\ dlqHandlers = NoDLQHandlers
  /\ subscribers = NoSubscribers
  /\ events = [p \in Pubs |-> PublishedEvent(p, "A1", 1)]
  /\ pub = [p \in Pubs |-> NewPub]
  /\ store = <<>>
  /\ assigned = <<>>
  /\ dlq = <<>>
  /\ metrics = NoMetrics
  /\ batch = <<>>
  /\ batchResults = <<>>
  /\ openInvoked = FALSE
  /\ execs = 0
  /\ nCalls = 0
  /\ lastExec = "none"
  /\ SagaIdle
  /\ RestIdle

\* subscribe(eventType, handler, {priority}), lines 542-560.
Subscribe(type, handler, priority) ==
  /\ subs < MaxSubs
  /\ Len(AllHandlers(handlers)) < MaxHandlers
  /\ subs' = subs + 1
  /\ LET handlerConfig == [ handler |-> handler,
                            priority |-> IF priority # Absent THEN priority ELSE 0,
                            filter |-> "none", circuitBreaker |-> NoBreaker,
                            reg |-> subs + 1 ] IN
     handlers' = [handlers EXCEPT ![type] = SortByPriority(Append(@, handlerConfig))]
  /\ UNCHANGED <<sagas, clears, restVars, sagaVars, cbVars, middlewares, dlqHandlers,
                 subscribers, events, pub, store, assigned, dlq, metrics, batch,
                 batchResults, openInvoked>>

\* unsubscribe(eventType, handler), lines 562-570: the registry it leaves.
Unsubscribed(registry, type, handler) ==
  LET index == FindHandler(registry[type], handler) IN
  IF index # 0 THEN [registry EXCEPT ![type] = Splice(@, index)] ELSE registry

\* unsubscribe(eventType, handler), lines 562-570.
Unsubscribe(type, handler) ==
  /\ handlers' = Unsubscribed(handlers, type, handler)
  /\ UNCHANGED <<registryVars, restVars, sagaVars, cbVars, middlewares, dlqHandlers,
                 subscribers, events, pub, store, assigned, dlq, metrics, batch,
                 batchResults, openInvoked>>

NextSub ==
  \/ \E type \in {EventType, Wildcard}, handler \in HandlerFns,
        priority \in Priorities : Subscribe(type, handler, priority)
  \/ \E type \in {EventType, Wildcard}, handler \in HandlerFns :
       Unsubscribe(type, handler)
  \/ \E p \in Pubs : Publish(p, 1) /\ \A q \in Pubs : pub[q].pc \in {"idle", "resolved"}
  \/ \E p \in Pubs : PublishResumes(p)
  \/ \E p \in Pubs : HandlerReturns(p, TRUE)

SpecSub == InitSub /\ [][NextSub]_vars

(***************************************************************************)
(* The functions subscribe returns: subscribe is called as above, and the  *)
(* caller of a subscribe call whose registration is in the registry calls  *)
(* the function that call returned (line 559).  `returned` keeps which     *)
(* call's function was called last.                                        *)
(***************************************************************************)
\* The function returned by the subscribe call that made registration j of
\* the list of `type` is called: () => this.unsubscribe(eventType, handler).
CallHandle(type, j) ==
  /\ j \in 1..Len(handlers[type])
  /\ handlers' = Unsubscribed(handlers, type, handlers[type][j].handler)
  /\ returned' = [ op |-> "unsubscribe", id |-> handlers[type][j].reg, value |-> TRUE ]
  /\ UNCHANGED <<registryVars, replay, roundTrip, sagaVars, cbVars, middlewares,
                 dlqHandlers, subscribers, events, pub, store, assigned, dlq, metrics,
                 batch, batchResults, openInvoked>>

NextHandle ==
  \/ \E type \in {EventType, Wildcard}, handler \in HandlerFns,
        priority \in Priorities : Subscribe(type, handler, priority)
  \/ \E type \in {EventType, Wildcard}, j \in 1..MaxHandlers : CallHandle(type, j)

SpecHandle == InitSub /\ [][NextHandle]_vars

(***************************************************************************)
(* The stored records over the life of their events: behind the bus of the *)
(* EventStore above, events are published with persistence and any         *)
(* maxRetries, their handler resolves or rejects (attempts are counted,    *)
(* backoffs awaited, events dead-lettered), the owner calls                *)
(* deadLetterQueue.retry(id, bus) with the ids of the events, and replay   *)
(* is called once.  The store is not cleared.                              *)
(***************************************************************************)
NextRecords ==
  \/ \E p \in Pubs, m \in 1..MaxRetries : Publish(p, m)
  \/ \E p \in Pubs : PublishResumes(p)
  \/ \E p \in Slots, ok \in BOOLEAN : HandlerReturns(p, ok)
  \/ \E p \in Slots : BackoffEnds(p)
  \/ \E p \in Slots, ok \in BOOLEAN : RetryReturns(p, ok)
  \/ \E id \in Pubs : DLQRetry(id)
  \/ \E from \in {Undefined, 1} : Replay("A1", from, Undefined)
  \/ ReplayResumes
  \/ ReplayRejects

SpecRecords == InitStore /\ [][NextRecords]_vars

(***************************************************************************)
(* DeadLetterQueue.get (lines 263-279) on its own: the queue holds up to   *)
(* maxSize entries, in the order add pushed them, so with addedAt          *)
(* (Date.now() of the add, line 247) never decreasing from the head on;    *)
(* of an entry, the fields get reads are kept: event.id, event.type and    *)
(* addedAt.  get is called with any options; an option that is absent is   *)
(* falsy: NoType for eventType, Absent for since and limit.                *)
(***************************************************************************)
OtherType == "payment"
NoType == ""
Times == { c + 1 : c \in Clock }

\* The first n elements of a sequence: slice(0, n).
Slice0(items, n) == SubSeq(items, 1, IF n < Len(items) THEN n ELSE Len(items))

\* get(options), lines 263-279.
DLQGet(queue, eventType, since, limit) ==
  LET byType == IF eventType # NoType
                  THEN SelectSeq(queue, LAMBDA dl : dl.event.type = eventType)
                  ELSE queue
      bySince == IF since # Absent
                   THEN SelectSeq(byType, LAMBDA dl : dl.addedAt >= since)
                   ELSE byType IN
  IF limit # Absent THEN Slice0(bySince, limit) ELSE bySince

InitGet ==
  /\ \E n \in 0..DLQMaxSize :
       dlq \in { q \in [1..n -> [ event : [id : Pubs, type : {EventType, OtherType}],
                                  addedAt : Times ]] :
                  \A j \in 1..(n - 1) : q[j].addedAt <= q[j + 1].addedAt }
  /\ returned = [ op |-> "none", id |-> Absent, value |-> FALSE ]
  /\ handlers = [t \in {EventType, Wildcard} |-> <<>>]
  /\ middlewares = <<>>
  /\ dlqHandlers = NoDLQHandlers
  /\ subscribers = NoSubscribers
  /\ events = [p \in Pubs |-> PublishedEvent(p, "A1", 1)]
  /\ pub = [p \in Pubs |-> NewPub]
  /\ store = <<>>
  /\ assigned = <<>>
  /\ metrics = NoMetrics
  /\ batch = <<>>
  /\ batchResults = <<>>
  /\ openInvoked = FALSE
  /\ cbs = [b \in {SoloBreaker} |-> NewBreaker(1, 1)]
  /\ execs = 0
  /\ nCalls = 0
  /\ lastExec = "none"
  /\ SagaIdle
  /\ sagas = {}
  /\ clears = 0
  /\ subs = 0
  /\ replay = [ pc |-> "idle", aggregateId |-> "A1", fromSequence |-> Undefined,
                toSequence |-> Undefined, events |-> <<>>, pos |-> 0,
                processed |-> <<>>, count |-> Undefined ]
  /\ roundTrip = [ event |-> PublishedEvent(1, "A1", 1),
                   json |-> ToJSON(PublishedEvent(1, "A1", 1)),
                   copy |-> PublishedEvent(1, "A1", 1), stage |-> "event" ]

\* A call of get: `returned` keeps the options and the array returned.
Get(eventType, since, limit) ==
  /\ returned' = [ op |-> "get", id |-> Absent,
                   options |-> [eventType |-> eventType, since |-> since, limit |-> limit],
                   value |-> DLQGet(dlq, eventType, since, limit) ]
  /\ UNCHANGED <<registryVars, replay, roundTrip, sagaVars, cbVars, busVars>>

NextGet ==
  \E eventType \in {NoType, EventType, OtherType}, since \in {Absent} \cup Times,
     limit \in {Absent} \cup (1..DLQMaxSize) :
    Get(eventType, since, limit)

SpecGet == InitGet /\ [][NextGet]_vars

(***************************************************************************)
(* An Event on its own: it is constructed with any options, its status and *)
(* attempts are what a dispatch left, then toJSON() is taken of it and      *)
(* fromJSON is called with the result, at a time and with random draws of   *)
(* its own.                                                                 *)
(***************************************************************************)
EventStatus == {"pending", "processing", "completed", "failed", "retrying", "dead_letter"}

InitJSON ==
  /\ \E payload \in Aggregates, id \in {Absent, 1}, traceId \in {Absent, 1},
        maxRetries \in {Absent} \cup (1..MaxRetries), retryDelay \in {Absent, 500},
        metadata \in {NoMetadata, [spanId |-> 1]},
        now \in Clock, rnd \in Clock,
        status \in EventStatus, attempts \in 0..MaxRetries :
       LET new == Event(payload,
                        [ id |-> id, traceId |-> traceId, maxRetries |-> maxRetries,
                          retryDelay |-> retryDelay, metadata |-> metadata ],
                        now, rnd)
           event == [new EXCEPT !.status = status, !.attempts = attempts] IN
       roundTrip = [ event |-> event, json |-> ToJSON(event), copy |-> event,
                     stage |-> "event" ]
  /\ ReplayIdle
  /\ cbs = [b \in {SoloBreaker} |-> NewBreaker(1, 1)]
  /\ execs = 0
  /\ nCalls = 0
  /\ lastExec = "none"
  /\ BusIdle
  /\ SagaIdle

\* event.toJSON(), lines 102-111.
Serialize ==
  /\ roundTrip.stage = "event"
  /\ roundTrip' = [roundTrip EXCEPT !.json = ToJSON(roundTrip.event), !.stage = "json"]
  /\ UNCHANGED <<registryVars, replay, returned, sagaVars, cbVars, busVars>>

\* Event.fromJSON(json), lines 113-121.
Deserialize(now, rnd) ==
  /\ roundTrip.stage = "json"
  /\ roundTrip' = [roundTrip EXCEPT !.copy = FromJSON(roundTrip.json, now, rnd),
                                    !.stage = "copy"]
  /\ UNCHANGED <<registryVars, replay, returned, sagaVars, cbVars, busVars>>

NextJSON ==
  \/ Serialize
  \/ \E now \in Clock, rnd \in Clock : Deserialize(now, rnd)

SpecJSON == InitJSON /\ [][NextJSON]_vars

(***************************************************************************)
(* Claims about the circuit breaker, checked under SpecCB / SpecCBFair.    *)
(***************************************************************************)
Reverse(seq) == [j \in 1..Len(seq) |-> seq[Len(seq) + 1 - j]]

SoloFailStep == execs' = execs - 1 /\ lastExec' = "err"
SoloSuccessStep == execs' = execs - 1 /\ lastExec' = "ok"
SoloTimerStep == lastExec' = "timer" /\ cbs' # cbs
SoloCallStep == nCalls' = nCalls + 1

\* C2: a CLOSED breaker becomes OPEN exactly in the step in which a failed
\* execution brings the number of consecutive failures (no success in between)
\* to failureThreshold, which is when failureCount reaches failureThreshold; a
\* success resets failureCount to 0; a failure that leaves the number of
\* consecutive failures below failureThreshold, and a success, leave the
\* breaker CLOSED.
C2_ClosedOpensAtThreshold ==
  /\ [](Solo.state = "closed" =>
          /\ Solo.failureCount = Solo.closedFails
          /\ Solo.closedFails < Solo.failureThreshold)
  /\ [][/\ (Solo.state = "closed" /\ Solo'.state = "open") <=>
             (/\ Solo.state = "closed"
              /\ SoloFailStep
              /\ Solo.closedFails + 1 = Solo.failureThreshold
              /\ Solo'.failureCount = Solo.failureThreshold)
        /\ (/\ Solo.state = "closed"
            /\ SoloFailStep
            /\ Solo.closedFails + 1 < Solo.failureThreshold) =>
               (Solo'.state = "closed" /\ Solo'.failureCount = Solo.closedFails + 1)
        /\ (Solo.state = "closed" /\ SoloSuccessStep) => Solo'.state = "closed"
        /\ SoloSuccessStep => Solo'.failureCount = 0]_vars

C2_Witness ==
  /\ Solo.state = "open"
  /\ lastExec = "err"
  /\ Solo.failureThreshold = 2
  /\ Solo.failureCount = 2
  /\ Solo.staleTimers = 0

\* C3: execute(fn) on an OPEN breaker rejects with the circuit-open error, does
\* not invoke fn and changes no field and no timer of the breaker.
C3_OpenExecuteNoEffect ==
  [][(SoloCallStep /\ Solo.state = "open") =>
       (lastExec' = "circuit_open" /\ cbs' = cbs /\ execs' = execs)]_vars

C3_Witness == lastExec = "circuit_open" /\ Solo.state = "open"

\* C4: the expiry of the timer of an OPEN breaker moves it to HALF_OPEN with
\* failureCount and successCount 0, and an OPEN breaker eventually leaves OPEN
\* (to HALF_OPEN, unless close() is called); in HALF_OPEN the successThreshold-th
\* success moves it to CLOSED, so a HALF_OPEN breaker has seen fewer than
\* successThreshold successes since it became HALF_OPEN; a failure in HALF_OPEN
\* moves it to OPEN in the same step.
C4_OpenHalfOpenClosedCycle ==
  /\ [](Solo.state = "half-open" => Solo.halfOpenSuccs < Solo.successThreshold)
  /\ [][/\ (SoloTimerStep /\ Solo.state = "open") =>
             /\ Solo'.state = "half-open"
             /\ Solo'.failureCount = 0
             /\ Solo'.successCount = 0
        /\ (SoloFailStep /\ Solo.state = "half-open") => Solo'.state = "open"
        /\ (/\ SoloSuccessStep
            /\ Solo.state = "half-open"
            /\ Solo.halfOpenSuccs + 1 >= Solo.successThreshold) =>
               Solo'.state = "closed"]_vars
  /\ (Solo.state = "open") ~> (Solo.state = "half-open" \/ lastExec = "close")

\* C29: in the state a close() call leaves, no timer started by an earlier
\* open() is pending and failureCount and successCount are 0; a CLOSED breaker
\* is never moved to HALF_OPEN, and it leaves CLOSED only in the step of the
\* failure that brings the failures since it was closed to failureThreshold.
C29_CloseCancelsTimers ==
  /\ [](lastExec = "close" =>
          /\ Solo.state = "closed"
          /\ ~CBHasTimer(Solo)
          /\ Solo.failureCount = 0
          /\ Solo.successCount = 0)
  /\ [][Solo.state = "closed" =>
          /\ Solo'.state # "half-open"
          /\ Solo'.state # "closed" =>
               (SoloFailStep /\ Solo.closedFails + 1 >= Solo.failureThreshold)]_vars

\* The number of timers started by open() that have not fired and were not
\* cleared.
PendingTimers(cb) == cb.staleTimers + (IF cb.timerPending THEN 1 ELSE 0)

\* C38: at most one OPEN -> HALF_OPEN timer of the breaker is pending in any
\* state, and a timer fires only while the breaker is OPEN, also when
\* executions that were in flight together fail after the breaker opened.
C38_OneTimerOnlyWhileOpen ==
  /\ [](PendingTimers(Solo) <= 1)
  /\ [](PendingTimers(Solo) > 0 => Solo.state = "open")
  /\ [][SoloTimerStep => Solo.state = "open"]_vars

(***************************************************************************)
(* Claims about the dispatch of the EventBus, checked under Spec.          *)
(***************************************************************************)
DLQEntriesOf(p) == { j \in 1..Len(dlq) : dlq[j].event.id = p }
Dispatched(p) == Settled(p) /\ pub[p].all # <<>>

\* One handler, without filter or breaker, and no dead-letter handler.
PlainSetup ==
  /\ Len(AllConfigs(handlers)) = 1
  /\ ~HasBreaker(handlers)
  /\ ~HasFilter(handlers)
  /\ dlqHandlers = NoDLQHandlers

\* C1: when the only handler of an event with maxRetries = m fails on every
\* invocation, the finished dispatch has made exactly m failing invocations, the
\* event has status dead_letter and the DeadLetterQueue holds exactly one entry
\* for it.
C1_ExactlyMAttemptsThenDeadLetter ==
  \A p \in Pubs :
    (PlainSetup /\ Dispatched(p) /\ pub[p].succeeded = 0) =>
       /\ pub[p].failed = events[p].maxRetries
       /\ events[p].status = "dead_letter"
       /\ Cardinality(DLQEntriesOf(p)) = 1

\* C6: a publish whose event had a terminal handler failure (attempts reached
\* maxRetries) never rejects: the failure goes to the DeadLetterQueue, process
\* goes on and the publish call resolves.
C6_TerminalFailureNeverPropagates ==
  /\ [](\A p \in Pubs :
          events[p].attempts >= events[p].maxRetries => pub[p].pc # "rejected")
  /\ [][\A p \in Pubs :
          (dlq' # dlq /\ dlq'[Len(dlq')].event.id = p) =>
             pub'[p].pc \in {"handler", "resolved"}]_vars

\* C7: with no dead-letter handler in play, every finished dispatch has invoked
\* at least once every handler that has no breaker and whose filter accepts the
\* event, whatever the other handlers did.
C7_SiblingsAlwaysInvoked ==
  \A p \in Pubs :
    (dlqHandlers = NoDLQHandlers /\ Dispatched(p)) =>
       \A i \in 1..Len(pub[p].all) :
         (pub[p].all[i].filter # "reject" /\ pub[p].all[i].circuitBreaker = NoBreaker)
            => pub[p].invoked[i] >= 1

\* C8: no handler is ever invoked while the breaker of its registration is
\* OPEN, on the first invocation and on the retry path alike.
C8_NoInvocationWhileOpen == ~openInvoked

\* C9: publishBatch returns one item per input event, in input order; success
\* says whether that event's publish resolved and error is its rejection reason
\* (null when it resolved); every event of the batch was published, and a
\* publish that rejected did so for a cause of its own.
C9_BatchResultPerEvent ==
  /\ batch # <<>> => \A k \in 1..Len(batch) : pub[batch[k]].pc # "idle"
  /\ batchResults # <<>> =>
       /\ Len(batchResults) = Len(batch)
       /\ \A k \in 1..Len(batch) :
            /\ batchResults[k].event = batch[k]
            /\ batchResults[k].success = (pub[batch[k]].pc = "resolved")
            /\ batchResults[k].error =
                 IF pub[batch[k]].pc = "rejected" THEN pub[batch[k]].error ELSE "null"
  /\ \A p \in Pubs :
       pub[p].pc = "rejected" =>
          \/ pub[p].error = "HandlerError" /\ pub[p].failed >= 1
          \/ pub[p].error = "MiddlewareChainBroken" /\ pub[p].all = <<>>
          \/ pub[p].error = "DLQHandlerError" /\ DLQEntriesOf(p) # {}

C9_Witness ==
  /\ Len(batchResults) = 2
  /\ batchResults[1].success = FALSE
  /\ batchResults[1].error = "HandlerError"
  /\ batchResults[2].success = TRUE
  /\ batchResults[2].event = 2

\* C10: in the result of publishBatch, an event whose handler threw on every
\* invocation (exhausting its retries) has success = false with the handler's
\* error and exactly one DeadLetterQueue entry, and an event whose handler
\* succeeded has success = true.
C10_BatchReportsDeadLetteredEvent ==
  (PlainSetup /\ batchResults # <<>>) =>
     \A k \in 1..Len(batch) :
       /\ (pub[batch[k]].failed >= 1 /\ pub[batch[k]].succeeded = 0) =>
             /\ batchResults[k].success = FALSE
             /\ batchResults[k].error = "HandlerError"
             /\ Cardinality(DLQEntriesOf(batch[k])) = 1
       /\ (pub[batch[k]].failed = 0 /\ pub[batch[k]].succeeded >= 1) =>
             batchResults[k].success = TRUE

\* C11: when a middleware returns an empty result, publish rejects with the
\* "middleware chain broken" error in that step, metrics.failed grows by 1,
\* metrics.published and the EventStore stay as they are; the later middlewares
\* are never run, the event is never stored and none of its handlers is ever
\* invoked.
C11_BrokenChainAbortsPublish ==
  /\ [][\A p \in Pubs :
          (/\ pub[p].pc = "middleware"
           /\ pub[p].mwIdx <= Len(middlewares)
           /\ middlewares[pub[p].mwIdx] = "drop"
           /\ pub'[p] # pub[p]) =>
             /\ pub'[p].pc = "rejected"
             /\ pub'[p].error = "MiddlewareChainBroken"
             /\ pub'[p].mwIdx = pub[p].mwIdx
             /\ store' = store
             /\ metrics'.failed = metrics.failed + 1
             /\ metrics'.published = metrics.published]_vars
  /\ [](\A p \in Pubs :
          pub[p].error = "MiddlewareChainBroken" =>
             /\ pub[p].pc = "rejected"
             /\ middlewares[pub[p].mwIdx] = "drop"
             /\ \A j \in 1..(pub[p].mwIdx - 1) : middlewares[j] # "drop"
             /\ pub[p].all = <<>>
             /\ \A i \in 1..MaxHandlers : pub[p].invoked[i] = 0
             /\ \A j \in 1..Len(store) : store[j].id # p)

C11_Witness ==
  \E p \in Pubs :
    /\ pub[p].error = "MiddlewareChainBroken"
    /\ pub[p].mwIdx < Len(middlewares)
    /\ metrics.failed >= 1
    /\ metrics.published = 0

\* C21: once handleProcessingError has set the status of an event to
\* dead_letter, no later step of the dispatch changes it, so an event that has
\* an entry in the DeadLetterQueue never ends its dispatch with status
\* completed.
C21_DeadLetterIsTerminal ==
  /\ [][\A p \in Pubs :
          events[p].status = "dead_letter" => events'[p].status = "dead_letter"]_vars
  /\ [](\A p \in Pubs :
          (Settled(p) /\ DLQEntriesOf(p) # {}) => events[p].status # "completed")

\* The handlers of the dispatch of slot p that come after the one in backoff,
\* have no filter and no breaker, and were not invoked yet.
Remaining(p) ==
  { j \in (pub[p].idx + 1)..Len(pub[p].all) :
      /\ pub[p].all[j].filter = "none"
      /\ pub[p].all[j].circuitBreaker = NoBreaker
      /\ pub[p].invoked[j] = 0 }

\* C28: while a dispatch is suspended in the backoff of a failing handler and
\* the event has handlers that were not invoked yet, a step that invokes one of
\* them is possible: the dispatch to the remaining handlers does not wait for
\* the backoff to end.
C28_BackoffDoesNotBlockSiblings ==
  \A p \in Pubs :
    (pub[p].pc = "backoff" /\ Remaining(p) # {}) =>
       ENABLED (Next /\ \E j \in Remaining(p) : pub'[p].invoked[j] > pub[p].invoked[j])

\* The dispatch of slot p had one failure: an invocation of a handler that
\* rejected with attempts, after the increment, below maxRetries, and whose
\* re-invocation after the backoff resolved.  (One error was counted and one
\* invocation rejected, of a handler that was invoked twice; a handler whose
\* re-invocation rejects after its breaker refused the first call was
\* invoked once.)
RetriedOnceWithSuccess(p) ==
  /\ Dispatched(p)
  /\ pub[p].failed = 1
  /\ events[p].attempts = 1
  /\ events[p].maxRetries > 1
  /\ \E i \in 1..Len(pub[p].all) : pub[p].invoked[i] = 2

\* C35: a dispatch whose one failure was below maxRetries and whose
\* re-invocation succeeded has invoked the failed handler exactly twice and
\* every other handler that its filter accepts exactly once, has no
\* DeadLetterQueue entry, left the event completed and resolved its publish;
\* metrics.retried grows by 1 in the step in which the backoff begins, and in
\* no other step; the step in which the re-invocation resolves goes on with
\* the handlers after the retried one.
C35_RetryReinvokesOneHandler ==
  /\ [](\A p \in Pubs :
          RetriedOnceWithSuccess(p) =>
             /\ \E i \in 1..Len(pub[p].all) :
                  /\ pub[p].invoked[i] = 2
                  /\ \A j \in 1..Len(pub[p].all) :
                       j # i => pub[p].invoked[j] =
                                   IF pub[p].all[j].filter = "reject" THEN 0 ELSE 1
             /\ DLQEntriesOf(p) = {}
             /\ events[p].status = "completed"
             /\ pub[p].pc = "resolved")
  /\ [][/\ \A p \in Pubs :
             (pub[p].pc # "backoff" /\ pub'[p].pc = "backoff") =>
                metrics'.retried = metrics.retried + 1
        /\ metrics'.retried # metrics.retried =>
             \E p \in Pubs : pub[p].pc # "backoff" /\ pub'[p].pc = "backoff"
        /\ \A p \in Pubs :
             (pub[p].pc = "retry" /\ pub'[p].succeeded = pub[p].succeeded + 1) =>
                /\ \A j \in 1..pub[p].idx : pub'[p].invoked[j] = pub[p].invoked[j]
                /\ pub'[p].pc \in {"handler", "backoff"} => pub'[p].idx > pub[p].idx
                /\ pub'[p].error # "HandlerError"]_vars

C35_Witness ==
  \E p \in Pubs :
    /\ RetriedOnceWithSuccess(p)
    /\ Len(pub[p].all) = 2
    /\ pub[p].invoked = <<1, 2>>
    /\ pub[p].succeeded = 2
    /\ events[p].maxRetries = 2
    /\ metrics.retried = 1
    /\ pub[p].pc = "resolved"

\* C36: the attempts counter of an event never exceeds its maxRetries, however
\* many of its handlers fail, and every DeadLetterQueue entry has retryCount
\* equal to the maxRetries of its event.
C36_AttemptsBoundedByMaxRetries ==
  /\ \A p \in Pubs : events[p].attempts <= events[p].maxRetries
  /\ \A j \in 1..Len(dlq) : dlq[j].retryCount = events[dlq[j].event.id].maxRetries

(***************************************************************************)
(* Claims about the EventStore and replay, checked under SpecStore.        *)
(***************************************************************************)
Unbounded(log, aggregateId) == GetEvents(log, aggregateId, Undefined, Undefined)

\* No clear() has emptied a store that held events.
NeverCleared == Len(assigned) = Len(store)

Published(p) == pub[p].pc \notin {"idle", "middleware"}

\* C12: the i-th stored event (0-based) has sequence i, also while publish calls
\* interleave; when the log holds one event, getEvents for its aggregate returns
\* that event, with sequence 0, and getEventCount is 1.
C12_SequenceIsLogIndex ==
  /\ \A i \in 1..Len(store) : store[i].sequence = i - 1
  /\ Len(store) = 1 =>
       /\ Unbounded(store, store[1].payload) = <<store[1]>>
       /\ Unbounded(store, store[1].payload)[1].sequence = 0
       /\ GetEventCount(store) = 1

C12_Witness ==
  /\ Len(store) = 2
  /\ store[1].id = 2 /\ store[2].id = 1
  /\ pub[1].pc = "handler" /\ pub[2].pc = "handler"

\* C13: over the lifetime of the store, clear() included, the n-th append
\* (0-based) is assigned sequence n, so no sequence number is assigned twice.
C13_SequenceNeverReused ==
  \A i \in 1..Len(assigned) : assigned[i] = i - 1

\* C14: a publish with persistence that got past the middlewares has appended
\* its event, in the step that leaves the middlewares and so before any of its
\* handlers is invoked; stored events stay in the log as they are unless clear()
\* empties it; so while the store was not cleared getEvents for the event's
\* aggregate holds the event, and a replay without bounds selects all of
\* getEvents.
C14_ReadYourWrites ==
  /\ [](\A p \in Pubs :
          (pub[p].persist /\ Published(p) /\ NeverCleared) =>
             \E k \in 1..Len(Unbounded(store, events[p].payload)) :
               Unbounded(store, events[p].payload)[k].id = p)
  /\ [](\A p \in Pubs : ~Published(p) => \A i \in 1..MaxHandlers : pub[p].invoked[i] = 0)
  /\ [][/\ store' # <<>> =>
             /\ Len(store') >= Len(store)
             /\ SubSeq(store', 1, Len(store)) = store
        /\ (/\ replay.pc = "idle" /\ replay'.pc # "idle"
            /\ replay'.fromSequence = Undefined /\ replay'.toSequence = Undefined) =>
               replay'.events = Unbounded(store, replay'.aggregateId)]_vars

C14_Witness ==
  /\ pub[1].pc = "resolved" /\ pub[1].persist
  /\ NeverCleared
  /\ replay.pc = "resolved"
  /\ replay.fromSequence = Undefined /\ replay.toSequence = Undefined
  /\ \E k \in 1..Len(replay.events) : replay.events[k].id = 1

InBounds(sequence, fromSequence, toSequence) ==
  /\ fromSequence = Undefined \/ sequence >= fromSequence
  /\ toSequence = Undefined \/ sequence <= toSequence

\* C15: replay selects exactly the stored events of the aggregate whose sequence
\* is in the inclusive range [fromSequence, toSequence], in append order; the
\* events it hands to process are those, in that order; when it returns, it has
\* processed all of them and returns their number, which without bounds is the
\* length of getEvents(aggregateId).
C15_ReplaySelectsRange ==
  /\ [](replay.pc # "idle" =>
          /\ \A k \in 1..Len(replay.events) :
               /\ replay.events[k].payload = replay.aggregateId
               /\ InBounds(replay.events[k].sequence, replay.fromSequence,
                           replay.toSequence)
               /\ k > 1 => replay.events[k - 1].sequence < replay.events[k].sequence
          /\ Len(replay.processed) <= Len(replay.events)
          /\ \A k \in 1..Len(replay.processed) :
               replay.processed[k] = replay.events[k].sequence
          /\ replay.pc = "resolved" =>
               /\ replay.count = Len(replay.events)
               /\ Len(replay.processed) = Len(replay.events))
  /\ [][(replay.pc = "idle" /\ replay'.pc # "idle") =>
          /\ \A i \in 1..Len(store) :
               (/\ store[i].payload = replay'.aggregateId
                /\ InBounds(store[i].sequence, replay'.fromSequence,
                            replay'.toSequence)) =>
                  \E k \in 1..Len(replay'.events) : replay'.events[k] = store[i]
          /\ \A k \in 1..Len(replay'.events) :
               \E i \in 1..Len(store) : replay'.events[k] = store[i]
          /\ (replay'.fromSequence = Undefined /\ replay'.toSequence = Undefined) =>
               Len(replay'.events) = Len(Unbounded(store, replay'.aggregateId))]_vars

C15_Witness ==
  /\ replay.pc = "resolved"
  /\ replay.fromSequence = 1 /\ replay.toSequence = 1
  /\ replay.count = 1
  /\ replay.processed = <<1>>
  /\ Len(store) = 2
  /\ store[1].payload = replay.aggregateId
  /\ store[2].payload = replay.aggregateId

\* C19: for every stored event all the subscribers of its type and all the
\* wildcard subscribers were called, those that throw and those after them
\* too; the append of a publish with persistence always stores the event under
\* the next sequence number, and the publish goes on to its handler.
C19_SubscribersBestEffort ==
  /\ [](\A i \in 1..Len(store) :
          /\ Len(store[i].notified) = Len(subscribers[EventType]) + Len(subscribers[Wildcard])
          /\ \A t \in {EventType, Wildcard} : \A k \in 1..Len(subscribers[t]) :
               \E j \in 1..Len(store[i].notified) : store[i].notified[j] = <<t, k>>)
  /\ [][\A p \in Pubs :
          (pub[p].pc = "middleware" /\ pub'[p].pc # "middleware" /\ pub[p].persist) =>
             /\ Len(store') = Len(store) + 1
             /\ store'[Len(store')].id = p
             /\ store'[Len(store')].sequence = Len(store)
             /\ pub'[p].pc = "handler"]_vars

C19_Witness ==
  /\ Len(store) = 2
  /\ subscribers[EventType][1] = "throws"
  /\ subscribers[Wildcard][1] = "throws"
  /\ Len(store[2].notified) = 4
  /\ pub[1].pc = "resolved"

\* The step is one of replay: its call, its resumption or rejection, or a step
\* of the process call it awaits.
ReplayStep ==
  \/ replay' # replay
  \/ pub'[ReplaySlot] # pub[ReplaySlot]
  \/ events'[ReplaySlot] # events[ReplaySlot]

\* C30: no step of replay changes the EventStore (its length, its records and
\* their sequences), the sequence numbers assigned, or metrics.published;
\* replay hands the selected events to process one at a time, in order, each
\* once, the next one only when the process call of the one before completed,
\* and every process call that completes counts once in metrics.processed.
C30_ReplayBypassesPersistence ==
  /\ [][ReplayStep =>
          /\ store' = store
          /\ GetEventCount(store') = GetEventCount(store)
          /\ assigned' = assigned
          /\ metrics'.published = metrics.published]_vars
  /\ [][Len(replay'.processed) # Len(replay.processed) =>
          /\ replay'.processed =
               Append(replay.processed,
                      replay'.events[Len(replay.processed) + 1].sequence)
          /\ replay'.events = replay.events \/ replay.pc = "idle"
          /\ replay.pc = "idle" \/ pub[ReplaySlot].pc = "processed"
          /\ pub'[ReplaySlot].pc \in {"handler", "processed"}
          /\ events'[ReplaySlot].id = replay'.events[Len(replay'.processed)].id]_vars
  /\ [][(pub[ReplaySlot].pc # "processed" /\ pub'[ReplaySlot].pc = "processed") =>
          metrics'.processed = metrics.processed + 1]_vars

C30_Witness ==
  /\ replay.pc = "resolved"
  /\ replay.count = 2
  /\ Len(replay.processed) = 2
  /\ Len(store) = 2
  /\ store[1].sequence = 0 /\ store[2].sequence = 1
  /\ metrics.published = 2
  /\ metrics.processed = 4

(***************************************************************************)
(* Claims about the stored records, checked under SpecRecords.             *)
(***************************************************************************)
\* C31: a stored record is never changed or removed by a step of a dispatch
\* (status changes, attempts increments, dead-lettering), of a dead-letter
\* retry or of replay: the log only grows at its end; every record keeps the
\* sequence, status and attempts append gave it (its index in the log, the
\* status the event had when it was published, attempts 0), whatever the
\* status and attempts of its event have become.
C31_StoredRecordImmutable ==
  /\ [][/\ Len(store') >= Len(store)
        /\ \A i \in 1..Len(store) : store'[i] = store[i]
        /\ \A i \in (Len(store) + 1)..Len(store') :
             \E p \in Pubs :
               /\ pub[p].pc = "middleware"
               /\ store'[i].id = events[p].id
               /\ store'[i].status = events[p].status
               /\ store'[i].attempts = events[p].attempts
               /\ store'[i].sequence = Len(store)]_vars
  /\ [](\A i \in 1..Len(store) :
          /\ store[i].sequence = i - 1
          /\ store[i].status \in {"pending", "retrying"}
          /\ store[i].attempts = 0)

C31_Witness ==
  /\ Len(store) = 2
  /\ store[1].id = 1 /\ store[1].status = "pending" /\ store[1].attempts = 0
  /\ store[2].id = 1 /\ store[2].status = "retrying"
  /\ events[1].status = "completed" /\ events[1].attempts = 1 /\ pub[1].failed = 1
  /\ events[2].status = "completed" /\ events[2].attempts = 1
  /\ returned = [op |-> "retry", id |-> 1, value |-> TRUE]
  /\ replay.pc = "resolved" /\ replay.count = 2
  /\ events[ReplaySlot].status = "completed" /\ events[ReplaySlot].attempts = 1

(***************************************************************************)
(* Claims about the DeadLetterQueue, checked under SpecDLQ.                *)
(***************************************************************************)
\* The step is a terminal failure of the event of slot p: handleProcessingError
\* counted an attempt that reached maxRetries.
TerminalFailureStep(p) ==
  /\ events'[p].id = events[p].id
  /\ events'[p].attempts = events[p].attempts + 1
  /\ events'[p].attempts >= events[p].maxRetries

\* The step is a call of retry (of remove) with the id.
RetryStep(id) ==
  /\ returned'.op = "retry" /\ returned'.id = id
  /\ returned' # returned \/ Len(dlq') < Len(dlq)

\* C16: the queue never holds more than maxSize entries, whatever adds, retries
\* and removes were made; an add to a queue below maxSize appends the entry, and
\* an add to a full queue evicts exactly the oldest entry and keeps the new one
\* as the last.
C16_BoundedFifoEviction ==
  /\ [](Len(dlq) <= DLQMaxSize)
  /\ [][\A p \in Pubs :
          TerminalFailureStep(p) =>
             /\ dlq' # <<>>
             /\ dlq'[Len(dlq')].event.id = events[p].id
             /\ dlq'[Len(dlq')].retryCount = events'[p].attempts
             /\ IF Len(dlq) < DLQMaxSize
                  THEN SubSeq(dlq', 1, Len(dlq') - 1) = dlq
                  ELSE SubSeq(dlq', 1, Len(dlq') - 1) = Tail(dlq)]_vars

C16_Witness ==
  /\ Len(dlq) = DLQMaxSize
  /\ dlq[1].event.id = 1
  /\ dlq[2].event.id = 2
  /\ dlq[2].retryCount = 2
  /\ Cardinality({p \in Pubs : pub[p].failed = 2}) = 2
  /\ returned.op = "none"

\* C17: retry(id, bus) on a queue with an entry for id removes the first such
\* entry and nothing else, calls publish with the event of that entry with
\* attempts 0 and status retrying, and returns true; with no entry for id it
\* returns false and leaves queue, EventStore, metrics and publish calls as they
\* are.
C17_RetryRepublishes ==
  [][\A id \in Pubs :
       RetryStep(id) =>
         IF \E j \in 1..Len(dlq) : dlq[j].event.id = id
           THEN /\ returned'.value = TRUE
                /\ Len(dlq') = Len(dlq) - 1
                /\ \E j \in 1..Len(dlq) :
                     /\ dlq[j].event.id = id
                     /\ \A k \in 1..(j - 1) : dlq[k].event.id # id /\ dlq'[k] = dlq[k]
                     /\ \A k \in j..Len(dlq') : dlq'[k] = dlq[k + 1]
                     /\ \E q \in Pubs :
                          /\ pub[q].pc = "idle" /\ pub'[q].pc = "middleware"
                          /\ events'[q].id = id
                          /\ events'[q].payload = dlq[j].event.payload
                          /\ events'[q].attempts = 0
                          /\ events'[q].status = "retrying"
           ELSE /\ returned'.value = FALSE
                /\ dlq' = dlq /\ store' = store /\ metrics' = metrics
                /\ pub' = pub /\ events' = events]_vars

C17_Witness ==
  /\ returned = [op |-> "retry", id |-> 1, value |-> TRUE]
  /\ events[2].id = 1
  /\ pub[2].pc = "resolved"
  /\ Len(store) = 2
  /\ store[2].id = 1 /\ store[2].status = "retrying" /\ store[2].attempts = 0
  /\ Len(dlq) = 1

\* C18: for every entry of the queue the handler registered for the event's
\* type and the one registered for the wildcard were both invoked, and no
\* publish rejects with the exception of such a handler.
C18_DLQHandlersBestEffort ==
  /\ \A j \in 1..Len(dlq) :
       dlq[j].notified = { t \in {EventType, Wildcard} : dlqHandlers[t] # "none" }
  /\ \A p \in Pubs : pub[p].error # "DLQHandlerError"

(***************************************************************************)
(* Claims about the functions subscribe returns, checked under SpecHandle. *)
(***************************************************************************)
\* C39: a call of the function a subscribe call returned removes the
\* registration that call made and no other one, and leaves the other
\* registrations in their order.
C39_HandleRemovesOwnRegistration ==
  [][(subs' = subs /\ returned'.op = "unsubscribe") =>
       \A type \in {EventType, Wildcard} :
         handlers'[type] = SelectSeq(handlers[type], LAMBDA hc : hc.reg # returned'.id)]_vars

(***************************************************************************)
(* Claims about DeadLetterQueue.get, checked under SpecGet.                *)
(***************************************************************************)
\* The entries of the queue that match the eventType and since filters, in
\* queue order.
Matching(eventType, since) ==
  SelectSeq(dlq, LAMBDA dl : /\ eventType = NoType \/ dl.event.type = eventType
                             /\ since = Absent \/ dl.addedAt >= since)

\* C33: get returns the entries that match the eventType and since filters,
\* the most recent one first, cut to the first `limit` entries of that order
\* when limit is given; the call leaves the queue as it is.
C33_GetMostRecentFirst ==
  /\ [](returned.op = "get" =>
          LET o == returned.options
              mostRecentFirst == Reverse(Matching(o.eventType, o.since)) IN
          returned.value = IF o.limit # Absent
                             THEN Slice0(mostRecentFirst, o.limit)
                             ELSE mostRecentFirst)
  /\ [][returned' # returned => dlq' = dlq]_vars

(***************************************************************************)
(* Claims about the Event, checked under SpecJSON.                         *)
(***************************************************************************)
\* C20: the Event that fromJSON makes of e.toJSON() equals e in id, payload,
\* every metadata field, status, attempts, maxRetries and retryDelay.
C20_JSONRoundTrip ==
  roundTrip.stage = "copy" =>
     /\ roundTrip.copy.id = roundTrip.event.id
     /\ roundTrip.copy.payload = roundTrip.event.payload
     /\ roundTrip.copy.metadata = roundTrip.event.metadata
     /\ roundTrip.copy.status = roundTrip.event.status
     /\ roundTrip.copy.attempts = roundTrip.event.attempts
     /\ roundTrip.copy.maxRetries = roundTrip.event.maxRetries
     /\ roundTrip.copy.retryDelay = roundTrip.event.retryDelay

(***************************************************************************)
(* Claims about the saga, checked under SpecSaga.                          *)
(***************************************************************************)
WithCompensation(seq) == SelectSeq(seq, LAMBDA i : saga.steps[i])

\* C5: when a step of a run fails, that run invokes the compensations of exactly
\* the steps that completed before it in this run, each once, in reverse order
\* of completion (so none of the failing step or of a later step); the state
\* was COMPENSATING, is FAILED when run rejects, and run rejects with the
\* error of the step.
C5_CompensatesCompletedStepsInReverse ==
  /\ [](\A r \in Runs :
          runs[r].pc = "rejected" =>
             /\ runs[r].compensated = Reverse(WithCompensation(runs[r].completed))
             /\ runs[r].wasCompensating
             /\ runs[r].error \in {"StepError", "SagaTimeout"})
  /\ [][\A r \in Runs :
          (runs[r].pc # "rejected" /\ runs'[r].pc = "rejected") =>
             saga'.state = "failed"]_vars

\* C34: a run never awaits a step, and never returns, more than timeout after
\* it was called: when the steps together take longer than that the run has
\* failed with the timeout error, whatever each step took, and the saga was
\* compensated and ends FAILED.
C34_SagaWideTimeout ==
  /\ [](\A r \in Runs :
          runs[r].elapsed > SagaTimeout =>
             /\ runs[r].pc \in {"compensation", "rejected"}
             /\ runs[r].error = "SagaTimeout"
             /\ runs[r].wasCompensating)
  /\ [][\A r \in Runs :
          (runs[r].pc # "rejected" /\ runs'[r].pc = "rejected") =>
             saga'.state = "failed"]_vars

\* C37: every compensation a run invokes is the one of a step that completed
\* in that run, also when the saga object was run before.
C37_CompensatesOwnStepsOnly ==
  \A r \in Runs :
    \A k \in 1..Len(runs[r].compensated) :
      \E c \in 1..Len(runs[r].completed) : runs[r].completed[c] = runs[r].compensated[k]

\* C40: the context a run returns holds the run's own initialContext and the
\* results of its own steps and nothing of another run, also when the runs
\* overlap; in the step in which a run finishes, the state of the saga
\* becomes the outcome of that run (COMPLETED when it returns, FAILED when it
\* rejects), so after all runs finished it is the outcome of the last one.
C40_OverlappingRunsDoNotInterfere ==
  /\ [](\A r \in Runs :
          runs[r].pc = "resolved" =>
             /\ runs[r].result.init = r
             /\ \A i \in 1..Len(saga.steps) : runs[r].result.own[i] = r)
  /\ [][\A r \in Runs :
          /\ (runs[r].pc # "resolved" /\ runs'[r].pc = "resolved") =>
                saga'.state = "completed"
          /\ (runs[r].pc # "rejected" /\ runs'[r].pc = "rejected") =>
                saga'.state = "failed"]_vars

RECURSIVE MergeAll(_, _, _, _)
\* The context after the results of steps i..n of run r were merged, in step
\* order.
MergeAll(context, r, i, n) ==
  IF i > n THEN context ELSE MergeAll(MergeResult(context, r, i), r, i + 1, n)

\* C22: a run all of whose steps completed executed the steps in the order they
\* were added, each once, invoked no compensation and returns its
\* initialContext merged with the result of each of its steps in step order; in
\* the step in which it returns the state becomes COMPLETED.
C22_CompletedRunReturnsMergedContext ==
  /\ [](\A r \in Runs :
          runs[r].pc = "resolved" =>
             /\ runs[r].completed = [i \in 1..Len(saga.steps) |-> i]
             /\ runs[r].compensated = <<>>
             /\ ~runs[r].wasCompensating
             /\ runs[r].result =
                  MergeAll(InitialContext(r), r, 1, Len(saga.steps)))
  /\ [][\A r \in Runs :
          (runs[r].pc # "resolved" /\ runs'[r].pc = "resolved") =>
             saga'.state = "completed"]_vars

\* The index of the next compensation function after index k, 0 when the rest
\* of the list holds none.
NextCompensation(k) ==
  IF \E j \in (k + 1)..Len(saga.compensations) : saga.compensations[j] # NoCompensation
    THEN CHOOSE j \in (k + 1)..Len(saga.compensations) :
           /\ saga.compensations[j] # NoCompensation
           /\ \A i \in (k + 1)..(j - 1) : saga.compensations[i] = NoCompensation
    ELSE 0

\* C23: when a compensation throws, the next compensation of the list is
\* invoked in the same step, and when none is left the state becomes FAILED and
\* run rejects; the error run rejects with stays the one of the failed step,
\* and it is never the error of a compensation.
C23_CompensationFailureSwallowed ==
  /\ [][\A r \in Runs :
          (runs[r].pc = "compensation" /\ runs'[r] # runs[r] /\ runs'[r].threw) =>
             /\ runs'[r].error = runs[r].error
             /\ IF NextCompensation(runs[r].k) # 0
                  THEN /\ runs'[r].pc = "compensation"
                       /\ runs'[r].k = NextCompensation(runs[r].k)
                       /\ runs'[r].compensated =
                            Append(runs[r].compensated,
                                   saga.compensations[NextCompensation(runs[r].k)])
                  ELSE /\ runs'[r].pc = "rejected"
                       /\ saga'.state = "failed"]_vars
  /\ [](\A r \in Runs :
          runs[r].pc = "rejected" => runs[r].error \in {"StepError", "SagaTimeout"})

C23_Witness ==
  \E r \in Runs :
    /\ runs[r].pc = "compensation"
    /\ runs[r].threw
    /\ runs[r].error = "StepError"
    /\ Len(runs[r].compensated) = 2
    /\ saga.state = "compensating"

(***************************************************************************)
(* Claims about the metrics and clear(), checked under SpecClear.          *)
(***************************************************************************)
ClearStep == clears' = clears + 1

\* C24: in the step in which a publish call resolves, metrics.published grows
\* by 1 and metrics.failed stays; in the step in which it rejects,
\* metrics.failed grows by 1 and metrics.published stays; no step but a
\* clear() makes one of published, processed, failed, retried smaller.
C24_PublishCountedOnce ==
  [][/\ \A p \in Pubs :
          /\ (~Settled(p) /\ pub'[p].pc = "resolved") =>
                /\ metrics'.published = metrics.published + 1
                /\ metrics'.failed = metrics.failed
          /\ (~Settled(p) /\ pub'[p].pc = "rejected") =>
                /\ metrics'.failed = metrics.failed + 1
                /\ metrics'.published = metrics.published
     /\ ~ClearStep =>
          /\ metrics'.published >= metrics.published
          /\ metrics'.processed >= metrics.processed
          /\ metrics'.failed >= metrics.failed
          /\ metrics'.retried >= metrics.retried]_vars

C24_Witness ==
  /\ clears = 1
  /\ pub[1].pc = "rejected" /\ pub[1].epoch = 0
  /\ pub[2].pc = "resolved" /\ pub[2].epoch = 0
  /\ metrics.published = 1 /\ metrics.failed = 1

\* C25: in the state a clear() call leaves, getMetrics() reports 0 for the four
\* counters, for eventStoreCount, deadLetterCount and handlersCount, and no
\* middleware and no saga is registered; a publish called after clear() runs
\* no middleware, invokes no handler and resolves.
C25_ClearResetsBus ==
  /\ [][ClearStep =>
          /\ GetMetrics' = [ published |-> 0, processed |-> 0, failed |-> 0,
                             retried |-> 0, eventStoreCount |-> 0,
                             deadLetterCount |-> 0, handlersCount |-> 0 ]
          /\ middlewares' = <<>>
          /\ sagas' = {}]_vars
  /\ [](\A p \in Pubs :
          (pub[p].pc # "idle" /\ pub[p].epoch >= 1) =>
             /\ pub[p].mws = <<>>
             /\ pub[p].all = <<>>
             /\ \A i \in 1..MaxHandlers : pub[p].invoked[i] = 0
             /\ pub[p].pc \in {"middleware", "resolved"})

\* C32: when a backoff timer that was pending while clear() was called fires,
\* the step invokes no handler and leaves metrics, DeadLetterQueue and
\* EventStore as they are, and so does every later step of that dispatch.
C32_InFlightTimerIsNoOp ==
  [][\A p \in Pubs :
       (pub[p].inFlightAtClear /\ pub'[p] # pub[p]) =>
          /\ \A i \in 1..MaxHandlers : pub'[p].invoked[i] = pub[p].invoked[i]
          /\ metrics' = metrics
          /\ dlq' = dlq
          /\ store' = store]_vars

C25_Witness ==
  /\ clears = 1
  /\ pub[1].pc = "resolved" /\ pub[1].epoch = 0 /\ pub[1].failed = 1
  /\ pub[1].invoked[2] = 1
  /\ pub[2].pc = "resolved" /\ pub[2].epoch = 1
  /\ GetMetrics = [ published |-> 1, processed |-> 1, failed |-> 0, retried |-> 0,
                    eventStoreCount |-> 1, deadLetterCount |-> 0,
                    handlersCount |-> 0 ]

(***************************************************************************)
(* Claims about the order of the handlers, checked under SpecSub.          *)
(***************************************************************************)
\* The list is in descending priority order, and in the order of the subscribe
\* calls among equal priorities.
InPriorityOrder(list) ==
  \A i, j \in 1..Len(list) :
    i < j => \/ list[i].priority > list[j].priority
             \/ list[i].priority = list[j].priority /\ list[i].reg < list[j].reg

\* The type-specific and the wildcard handlers of the dispatch of slot p.
TypedOf(p) == SubSeq(pub[p].all, 1, pub[p].nTyped)
WildcardOf(p) == SubSeq(pub[p].all, pub[p].nTyped + 1, Len(pub[p].all))

\* The step invokes the handler at position i of the handler list of slot p.
Invokes(p, i) == pub'[p].invoked[i] > pub[p].invoked[i]

\* process takes the lists the registry holds when it starts.
TakesRegistry(p) ==
  (pub[p].pc = "middleware" /\ pub'[p].pc # "middleware") =>
     /\ TypedOf(p)' = handlers[EventType]
     /\ WildcardOf(p)' = handlers[Wildcard]

\* C26: whatever subscribe and unsubscribe calls were made, the handler list of
\* each type is in descending priority order, in registration order among
\* equal priorities; a dispatch takes the type-specific list followed by the
\* wildcard list as they are then, and invokes the handlers in the order of
\* that concatenation, so every wildcard handler after all type-specific ones.
C26_PriorityOrderThenWildcard ==
  /\ [](\A type \in {EventType, Wildcard} : InPriorityOrder(handlers[type]))
  /\ [](\A p \in Pubs : InPriorityOrder(TypedOf(p)) /\ InPriorityOrder(WildcardOf(p)))
  /\ [][\A p \in Pubs :
          /\ TakesRegistry(p)
          /\ \A i \in 1..MaxHandlers :
               Invokes(p, i) =>
                  /\ \A j \in 1..(i - 1) : pub[p].invoked[j] >= 1
                  /\ \A j \in (i + 1)..MaxHandlers : pub[p].invoked[j] = 0]_vars

C26_Witness ==
  \E p \in Pubs :
    /\ pub[p].pc = "resolved"
    /\ pub[p].nTyped = 2
    /\ pub[p].all[1].priority > pub[p].all[2].priority
    /\ pub[p].all[1].reg = MaxSubs
    /\ pub[p].all[2].reg = 1
    /\ pub[p].invoked[1] = 1 /\ pub[p].invoked[2] = 1

\* C27 (as stated): when a handler is invoked for an event, no handler invoked
\* earlier for that event, type-specific or wildcard, has a lower priority.
C27_HigherPriorityFirst ==
  [][\A p \in Pubs : \A i \in 1..MaxHandlers :
       Invokes(p, i) =>
          \A j \in 1..Len(pub[p].all) :
            pub[p].invoked[j] >= 1 => pub[p].all[j].priority >= pub[p].all[i].priority]_vars

\* C27 (amended): when a handler is invoked for an event, no handler of the
\* same list (the event's type, or the wildcard) invoked earlier has a lower
\* priority; a type-specific handler is invoked only while no wildcard handler
\* was, and a wildcard handler only when every type-specific one was, whatever
\* their priorities.
C27_HigherPriorityFirstPerList ==
  [][\A p \in Pubs :
       /\ TakesRegistry(p)
       /\ \A i \in 1..MaxHandlers :
            Invokes(p, i) =>
               /\ \A j \in 1..Len(pub[p].all) :
                    (pub[p].invoked[j] >= 1 /\ (j <= pub[p].nTyped <=> i <= pub[p].nTyped)) =>
                       pub[p].all[j].priority >= pub[p].all[i].priority
               /\ i <= pub[p].nTyped =>
                    \A j \in (pub[p].nTyped + 1)..Len(pub[p].all) : pub[p].invoked[j] = 0
               /\ i > pub[p].nTyped =>
                    \A j \in 1..pub[p].nTyped : pub[p].invoked[j] >= 1]_vars

C27_Witness ==
  \E p \in Pubs :
    /\ pub[p].pc = "resolved"
    /\ pub[p].nTyped = 1
    /\ Len(pub[p].all) = 2
    /\ pub[p].all[1].priority < pub[p].all[2].priority
    /\ pub[p].invoked[1] = 1 /\ pub[p].invoked[2] = 1

====
